---- MODULE Spec2Model ----
(***************************************************************************)
(* A model of the container-image build orchestrator of wandb launch       *)
(* (wandb/sdk/launch/builder/build.py): the Dockerfile composer, the image *)
(* tagger and the builder dispatcher.                                      *)
(*                                                                         *)
(* Text is modelled as a sequence of pieces (strings): a template          *)
(* contributes its literal pieces, a substituted value its own pieces.     *)
(* Strings that the code inspects character by character (package names,   *)
(* the inputs of the tagger) are sequences of characters or code points.   *)
(***************************************************************************)
EXTENDS Integers, Sequences, FiniteSets, TLC

VARIABLES
    launch_project, \* the LaunchProject descriptor handed to the composer
    request,        \* the launch being built: entry point, runner and builder kind
    tree,           \* the files of launch_project.project_dir the composer touches
    host,           \* facts of the host process: user, uid, buildx, libraries
    calls,          \* the composer calls made so far, with what each returned
    tagCalls,       \* image_tag_from_dockerfile_and_source: the last two calls
    launch_config,  \* build_image_from_project: the launch configuration
    pc,             \* build_image_from_project: the statement it is at
    frame,          \* build_image_from_project: its local variables
    events,         \* the calls build_image_from_project has made, in order
    result,         \* what build_image_from_project returned or raised
    disk,           \* the source trees of the projects and the staging directories
    stagers,        \* the invocations of _create_docker_build_ctx
    parent,         \* safe_open: the entries of the target's parent directory
    openers,        \* safe_open: the processes inside a call of it
    wsf,            \* WriteSerializingFile: its lock and the file it wraps
    threads         \* WriteSerializingFile: the threads calling write and close

vars == <<launch_project, request, tree, host, calls, tagCalls,
          launch_config, pc, frame, events, result,
          disk, stagers, parent, openers, wsf, threads>>
composerVars == <<launch_project, request, tree, host, calls>>
dispatchVars == <<launch_config, pc, frame, events, result>>
stagingVars == <<disk, stagers>>
safeOpenVars == <<parent, openers>>
serialVars == <<wsf, threads>>
libVars == <<stagingVars, safeOpenVars, serialVars>>

----------------------------------------------------------------------------
(* Bounds of the model.                                                    *)

MaxSrcLen == 2      \* longest image source string of a tagger call
MaxDfLen == 2       \* longest recipe text of a tagger call
MaxLines == 2       \* longest requirements.txt, in lines
MaxCalls == 2       \* composer calls recorded in one behaviour

\* An optional value: None is the empty sequence, a value v that is set is
\* the one-element sequence <<v>>.
None == <<>>
Some(v) == <<v>>

----------------------------------------------------------------------------
(* Characters.  A string the code inspects character by character is a     *)
(* sequence of one-character strings.                                      *)

UpperCase == <<"A", "B", "C", "D", "E", "F", "G", "H", "I", "J", "K", "L", "M",
               "N", "O", "P", "Q", "R", "S", "T", "U", "V", "W", "X", "Y", "Z">>
LowerCase == <<"a", "b", "c", "d", "e", "f", "g", "h", "i", "j", "k", "l", "m",
               "n", "o", "p", "q", "r", "s", "t", "u", "v", "w", "x", "y", "z">>
DigitChars == {"0", "1", "2", "3", "4", "5", "6", "7", "8", "9"}

\* str.lower() of one character, and of a string.
LowerChar(c) ==
    IF \E i \in 1..26 : UpperCase[i] = c
    THEN LowerCase[CHOOSE i \in 1..26 : UpperCase[i] = c]
    ELSE c

Lower(s) == [i \in 1..Len(s) |-> LowerChar(s[i])]

RECURSIVE ReplaceChar(_, _, _)
\* s.replace(c, r) for a character c and a string r.
ReplaceChar(s, c, r) ==
    IF s = <<>> THEN <<>>
    ELSE (IF Head(s) = c THEN r ELSE <<Head(s)>>) \o ReplaceChar(Tail(s), c, r)

\* The characters shlex.quote leaves alone: [\w@%+=:,./-], ASCII.
SafeChars ==
    {UpperCase[i] : i \in 1..26} \cup {LowerCase[i] : i \in 1..26}
    \cup DigitChars \cup {"_", "@", "%", "+", "=", ":", ",", ".", "/", "-"}

\* shlex.quote(s) (six.moves.shlex_quote is the same function).
ShlexQuote(s) ==
    IF s = <<>> THEN <<"'", "'">>
    ELSE IF \A i \in 1..Len(s) : s[i] \in SafeChars THEN s
    ELSE <<"'">> \o ReplaceChar(s, "'", <<"'", "\"", "'", "\"", "'">>) \o <<"'">>

RECURSIVE JoinWith(_, _)
\* sep.join(parts), for a sequence of strings.
JoinWith(parts, sep) ==
    IF parts = <<>> THEN <<>>
    ELSE IF Len(parts) = 1 THEN Head(parts)
    ELSE Head(parts) \o sep \o JoinWith(Tail(parts), sep)

\* A value is truthy: set, and neither 0 nor the empty string.
TruthyInt(opt) == opt # None /\ opt[1] # 0
TruthyStr(opt) == opt # None /\ opt[1] # ""

RECURSIVE Flat(_)
\* The text a sequence of pieces stands for.
Flat(pieces) ==
    IF pieces = <<>> THEN "" ELSE Head(pieces) \o Flat(Tail(pieces))

----------------------------------------------------------------------------
(* The outcome of a call: what it returned or raised, and the warnings it  *)
(* printed with wandb.termwarn before that.                                *)

Returned(value, warnings) ==
    [raised |-> "", ret |-> value, warnings |-> warnings]
Raised(exception, warnings) ==
    [raised |-> exception, ret |-> <<>>, warnings |-> warnings]

----------------------------------------------------------------------------
(* DockerfileComposer                                                      *)

_GENERATED_DOCKERFILE_NAME == "Dockerfile.wandb-autogenerated"
DEFAULT_ENTRYPOINT == "_wandb_default_entrypoint"

\* The root-forcing test left out.
get_docker_user_no_root(lp, runner_type, h) ==
    <<h.username,
      IF TruthyInt(lp.docker_user_id) THEN lp.docker_user_id[1] ELSE h.euid>>

\* get_docker_user: <<username, userid>>.
get_docker_user(lp, runner_type, h) ==
    LET username == h.username
    IN IF runner_type = "sagemaker" /\ ~TruthyStr(lp.docker_image)
       THEN <<username, 0>>
       ELSE <<username,
              IF TruthyInt(lp.docker_user_id) THEN lp.docker_user_id[1]
              ELSE h.euid>>

DOCKERFILE_TEMPLATE(py_build_image, requirements_section, base_setup, uid, user_setup, workdir, entrypoint_setup) ==
    <<"\n# ----- stage 1: build -----\nFROM ">> \o py_build_image
    \o <<" as build\n\n# requirements section depends on pip vs conda, and presence of buildx\n">>
    \o requirements_section
    \o <<"\n\n# ----- stage 2: base -----\n">> \o base_setup
    \o <<"\n\nCOPY --from=build /env /env\nENV PATH=\"/env/bin:$PATH\"\n\nENV SHELL /bin/bash\n\n# some resources (eg sagemaker) must run on root\n">>
    \o user_setup
    \o <<"\n\nWORKDIR ">> \o workdir
    \o <<"\nRUN chown -R ", uid, " ">> \o workdir
    \o <<"\n\n# make artifacts cache dir unrelated to build\nRUN mkdir -p ">>
    \o workdir \o <<"/.cache && chown -R ", uid, " ">> \o workdir
    \o <<"/.cache\n\n# copy code/etc\nCOPY --chown=", uid, " src/ ">> \o workdir
    \o <<"\n\nENV PYTHONUNBUFFERED=1\n\n# some resources (eg sagemaker) have unique entrypoint requirements\n">>
    \o entrypoint_setup \o <<"\n">>

PYTHON_SETUP_TEMPLATE(py_base_image) ==
    <<"\nFROM ">> \o py_base_image \o <<" as base\n">>

\* (The backquotes around python in the template's comment line are written
\* as apostrophes here.)
CUDA_SETUP_TEMPLATE(cuda_base_image, python_packages, py_version) ==
    <<"\nFROM ", cuda_base_image, " as base\n# TODO: once NVIDIA their linux repository keys for all docker images\nRUN apt-key adv --fetch-keys https://developer.download.nvidia.com/compute/cuda/repos/$(cat /etc/os-release | grep ^ID= |  cut -d \"=\" -f2 )$(cat /etc/os-release | grep ^VERSION_ID= |  cut -d \"=\" -f2 | sed -e 's/[\".]//g' )/$(uname -i)/3bf863cc.pub\nRUN apt-key adv --fetch-keys https://developer.download.nvidia.com/compute/machine-learning/repos/$(cat /etc/os-release | grep ^ID= |  cut -d \"=\" -f2 )$(cat /etc/os-release | grep ^VERSION_ID= |  cut -d \"=\" -f2 | sed -e 's/[\".]//g' )/$(uname -i)/7fa2af80.pub\nRUN apt-get update -qq && apt-get install -y software-properties-common && add-apt-repository -y ppa:deadsnakes/ppa\n\n# install python\nRUN apt-get update -qq && apt-get install --no-install-recommends -y     ">>
    \o python_packages
    \o <<"     && apt-get -qq purge && apt-get -qq clean     && rm -rf /var/lib/apt/lists/*\n\n# make sure 'python' points at the right version\nRUN update-alternatives --install /usr/bin/python python /usr/bin/python">>
    \o py_version
    \o <<" 1     && update-alternatives --install /usr/local/bin/python python /usr/bin/python">>
    \o py_version \o <<" 1\n">>

PIP_TEMPLATE(requirements_files, buildx_optional_prefix, pip_install) ==
    <<"\nRUN python -m venv /env\n# make sure we install into the env\nENV PATH=\"/env/bin:$PATH\"\nCOPY ">>
    \o requirements_files
    \o <<" ./\n", buildx_optional_prefix, " ">> \o pip_install \o <<"\n">>

CONDA_TEMPLATE(buildx_optional_prefix) ==
    <<"\nCOPY src/environment.yml .\n", buildx_optional_prefix,
      " conda env create -f environment.yml -n env\n\n# pack the environment so that we can transfer to the base image\nRUN conda install -c conda-forge conda-pack\nRUN conda pack -n env -o /tmp/env.tar &&     mkdir /env && cd /env && tar xf /tmp/env.tar &&     rm /tmp/env.tar\nRUN /env/bin/conda-unpack\n">>

USER_CREATE_TEMPLATE(uid, user) ==
    <<"\nRUN useradd     --create-home     --no-log-init     --shell /bin/bash     --gid 0     --uid ",
      uid, "     ", user, " || echo \"\"\n">>

ENTRYPOINT_TEMPLATE(default_entrypoint, workdir, entrypoint) ==
    <<"\nCOPY ./src/", default_entrypoint, " ">> \o workdir
    \o <<"\nENTRYPOINT [\"sh\", \"./", default_entrypoint, "\", \"">>
    \o entrypoint \o <<"\"]\n">>

BASH_ENTRYPOINT ==
    "\n#!/bin/sh\nif [ -z \"${WANDB_ENTRYPOINT_COMMAND}\" ]; then\n    CMD=\"$1\"\nelse\n    CMD=\"${WANDB_ENTRYPOINT_COMMAND}\"\nfi\nCMD=\"${CMD} ${WANDB_ARGS}\"\necho \"Running command: ${CMD}\"\neval $CMD\n"

\* A version string is the sequence of its dot-separated components, as
\* str.split(".") returns them.
\* get_current_python_version: <<version, major>> of sys.version.
get_current_python_version(h) ==
    LET full_version == h.sys_version
        major == full_version[1]
    IN <<IF Len(full_version) >= 2
         THEN JoinWith(<<<<full_version[1]>>, <<full_version[2]>>>>, <<".">>)
         ELSE <<major, ".0">>,
         major>>

\* get_base_setup
get_base_setup(lp, py_version, py_major) ==
    LET python_base_image == <<"python:">> \o py_version \o <<"-buster">>
    IN IF TruthyStr(lp.cuda_base_image)
       THEN LET python_packages ==
                    IF py_major = "2"
                    THEN << <<"python">> \o py_version,
                            <<"libpython">> \o py_version,
                            <<"python-pip">>, <<"python-setuptools">> >>
                    ELSE << <<"python">> \o py_version,
                            <<"libpython">> \o py_version,
                            <<"python3-pip">>, <<"python3-setuptools">> >>
            IN CUDA_SETUP_TEMPLATE(lp.cuda_base_image[1],
                                   JoinWith(python_packages, <<" \\\n">>),
                                   py_version)
       ELSE PYTHON_SETUP_TEMPLATE(python_base_image)

\* The loop of _parse_existing_requirements over
\* pkg_resources.parse_requirements(f): each next(iter) yields the
\* requirement of the next line, or raises on a line that does not parse, or
\* raises StopIteration at the end.  parse_requirements is a generator in
\* older setuptools, and a generator that has raised is exhausted; in newer
\* setuptools it is a map object, which resumes with the next line
\* (h.parser_resumes).
\* The name with the call of lower() left out.
RequirementNameNoLower(pkg) ==
    IF "name" \in DOMAIN pkg THEN pkg.name ELSE pkg.str

\* The name the loop takes from a parsed requirement: pkg.name.lower() when
\* the object has a name (every pkg_resources.Requirement built on
\* packaging has), else str(pkg).
RequirementName(pkg) ==
    IF "name" \in DOMAIN pkg THEN Lower(pkg.name) ELSE pkg.str

RECURSIVE ParseLoop(_, _, _, _)
ParseLoop(lines, exhausted, include_only, h) ==
    IF exhausted \/ lines = <<>> THEN include_only      \* StopIteration: break
    ELSE IF Head(lines).kind = "bad"                    \* Exception: continue
    THEN ParseLoop(Tail(lines), ~h.parser_resumes, include_only, h)
    ELSE LET pkg == Head(lines)
             name == RequirementName(pkg)
         IN ParseLoop(Tail(lines), FALSE,
                      include_only \cup {ShlexQuote(name)}, h)

\* include_only once the loop of _parse_existing_requirements has ended,
\* for a requirements.txt that exists.
IncludeOnly(t, h) == ParseLoop(t.requirements[1], FALSE, {}, h)

\* The orders in which iterating over a set of strings can yield it: the
\* order depends on the strings' hashes, which differ from one interpreter
\* process to the next (hash randomization).
SetIterations(S) ==
    {s \in [1..Cardinality(S) -> S] : \A i, j \in 1..Cardinality(S) :
                                          s[i] = s[j] => i = j}

\* _parse_existing_requirements; iter is the order in which ",".join
\* iterates over include_only.
_parse_existing_requirements(lp, t, iter) ==
    IF t.requirements # None
    THEN <<"WANDB_ONLY_INCLUDE=">> \o JoinWith(iter, <<",">>) \o <<" ">>
    ELSE <<>>

DisableCachePrefix == "RUN WANDB_DISABLE_CACHE=true"
PipCachePrefix == "RUN --mount=type=cache,mode=0777,target=/root/.cache/pip"
CondaCachePrefix == "RUN --mount=type=cache,mode=0777,target=/opt/conda/pkgs"
BuildxWarning ==
    "Docker BuildX is not installed, for faster builds upgrade docker: https://github.com/docker/buildx#installing"
NoRequirementsWarning ==
    "No requirements file found. No packages will be installed."

\* os.path.exists(os.path.join(launch_project.project_dir, name)), guarded
\* by project_dir is not None.
HasPlain(lp, t) == lp.project_dir # None /\ t.requirements # None
HasFrozen(lp, t) == lp.project_dir # None /\ t.frozen

\* The kaniko branch not resetting buildx_installed.
BuildxInstalledWhateverBuilder(builder_type, h) == h.buildx

\* buildx_installed, where it is bound: docker.is_buildx_installed() for the
\* docker builder, False for kaniko.
BuildxInstalled(builder_type, h) == builder_type = "docker" /\ h.buildx

\* get_requirements_section.  A local variable that no branch taken has
\* assigned is unbound; reading it raises UnboundLocalError.
get_requirements_section(lp, builder_type, t, h, iter) ==
    LET buildx_bound == builder_type \in {"docker", "kaniko"}
        buildx_installed == BuildxInstalled(builder_type, h)
        warnings0 == IF builder_type = "docker" /\ ~h.buildx
                     THEN <<BuildxWarning>> ELSE <<>>
    IN IF lp.deps_type = Some("pip")
       THEN LET requirements_files ==
                    (IF HasPlain(lp, t) THEN << <<"src/requirements.txt">> >>
                     ELSE <<>>)
                    \o (IF HasFrozen(lp, t)
                        THEN << <<"src/requirements.frozen.txt">>,
                                <<"_wandb_bootstrap.py">> >>
                        ELSE <<>>)
                pip_install_bound == HasPlain(lp, t) \/ HasFrozen(lp, t)
                pip_install_line ==
                    IF HasFrozen(lp, t)
                    THEN _parse_existing_requirements(lp, t, iter)
                         \o <<"python _wandb_bootstrap.py">>
                    ELSE <<"pip install -r requirements.txt">>
                prefix == IF buildx_installed THEN PipCachePrefix
                          ELSE DisableCachePrefix
            IN IF ~buildx_bound \/ ~pip_install_bound
               THEN Raised("UnboundLocalError", warnings0)
               ELSE Returned(PIP_TEMPLATE(JoinWith(requirements_files, <<" ">>),
                                          prefix, pip_install_line),
                             warnings0)
       ELSE IF lp.deps_type = Some("conda")
       THEN LET prefix == IF buildx_installed THEN CondaCachePrefix
                          ELSE DisableCachePrefix
            IN IF ~buildx_bound THEN Raised("UnboundLocalError", warnings0)
               ELSE Returned(CONDA_TEMPLATE(prefix), warnings0)
       ELSE Returned(<<"RUN mkdir -p env/">>,
                     warnings0 \o <<NoRequirementsWarning>>)

\* get_user_setup
get_user_setup(username, userid, runner_type) ==
    IF runner_type = "sagemaker" THEN <<"USER root">>
    ELSE USER_CREATE_TEMPLATE(ToString(userid), username)
         \o <<"\nUSER ", username>>

\* join(split_command): the shell-escaped command.
join(split_command) ==
    JoinWith([i \in 1..Len(split_command) |->
                 ShlexQuote(ReplaceChar(split_command[i], "'", <<>>))],
             <<" ">>)

\* get_entrypoint_setup's return value; its write of the wrapper script is
\* in GenerateDockerfile.
get_entrypoint_setup(lp, entry_point, workdir) ==
    ENTRYPOINT_TEMPLATE(DEFAULT_ENTRYPOINT, workdir, join(entry_point.command))

\* generate_dockerfile: the outcome, and whether the call got as far as
\* writing the wrapper script (wrote).
generate_dockerfile(lp, entry_point, runner_type, builder_type, t, h, iter) ==
    LET spl == SubSeq(lp.python_version[1], 1,
                      IF Len(lp.python_version[1]) < 2
                      THEN Len(lp.python_version[1]) ELSE 2)
        py == IF lp.python_version # None
              THEN <<JoinWith([i \in 1..Len(spl) |-> <<spl[i]>>], <<".">>),
                     spl[1]>>
              ELSE get_current_python_version(h)
        py_version == py[1]
        py_major == py[2]
        python_build_image ==
            IF lp.deps_type = Some("pip") \/ lp.deps_type = None
            THEN <<"python:">> \o py_version
            ELSE IF py_major = "3" THEN <<"continuumio/miniconda3:latest">>
            ELSE <<"continuumio/miniconda:latest">>
        requirements_section ==
            get_requirements_section(lp, builder_type, t, h, iter)
        python_base_setup == get_base_setup(lp, py_version, py_major)
        user == get_docker_user(lp, runner_type, h)
        username == user[1]
        userid == user[2]
        user_setup == get_user_setup(username, userid, runner_type)
        workdir == <<"/home/", username>>
        entrypoint_section == get_entrypoint_setup(lp, entry_point, workdir)
    IN IF requirements_section.raised # ""
       THEN [out |-> requirements_section, wrote |-> FALSE]
       ELSE IF lp.project_dir = None
       THEN [out |-> Raised("AssertionError", requirements_section.warnings),
             wrote |-> FALSE]
       ELSE [out |-> Returned(
                 DOCKERFILE_TEMPLATE(python_build_image,
                                     requirements_section.ret,
                                     python_base_setup, ToString(userid),
                                     user_setup, workdir, entrypoint_section),
                 requirements_section.warnings),
             wrote |-> TRUE]

----------------------------------------------------------------------------
(* The composer's state and calls.                                         *)

\* Lines of a requirements.txt: requirements that parse, and a line that
\* does not (a URL, an option such as -r other.txt).
LineNp == [kind |-> "req", name |-> <<"N", "p">>]
LineNpLower == [kind |-> "req", name |-> <<"n", "p">>]
LineB == [kind |-> "req", name |-> <<"b">>]
LineBad == [kind |-> "bad"]

Manifests(lineKinds) == UNION {[1..k -> lineKinds] : k \in 0..MaxLines}

EntryPoints ==
    { [name |-> "main.py",
       command |-> << <<"p", "y">>, <<"m", ".", "p", "y">> >>],
      [name |-> "run",
       command |-> << <<"a", " ", "'", "b", "'">> >>] }

\* The iteration orders of include_only that a call can meet: those of the
\* set the loop builds when _parse_existing_requirements runs its loop, else
\* none to choose.
IterationOrders(lp, t, h) ==
    IF lp.deps_type = Some("pip") /\ HasFrozen(lp, t) /\ t.requirements # None
    THEN SetIterations(IncludeOnly(t, h))
    ELSE {<<>>}

Record(fn, out) ==
    /\ Len(calls) < MaxCalls
    /\ calls' = Append(calls, [fn |-> fn, out |-> out])

\* A call of get_docker_user(launch_project, runner_type).
GetDockerUser ==
    /\ Record("get_docker_user",
              Returned(get_docker_user(launch_project, request.runner_type,
                                       host), <<>>))
    /\ UNCHANGED <<launch_project, request, tree, host, tagCalls, dispatchVars, libVars>>

\* A call of get_requirements_section(launch_project, builder_type).
GetRequirementsSection ==
    /\ \E iter \in IterationOrders(launch_project, tree, host) :
          Record("get_requirements_section",
                 get_requirements_section(launch_project, request.builder_type,
                                          tree, host, iter))
    /\ UNCHANGED <<launch_project, request, tree, host, tagCalls, dispatchVars, libVars>>

\* A call of generate_dockerfile(launch_project, entry_point, runner_type,
\* builder_type), with get_entrypoint_setup's write of the wrapper script
\* into project_dir.
GenerateDockerfile ==
    /\ \E iter \in IterationOrders(launch_project, tree, host) :
          LET r == generate_dockerfile(launch_project, request.entry_point,
                                       request.runner_type,
                                       request.builder_type, tree, host, iter)
          IN /\ Record("generate_dockerfile", r.out)
             /\ tree' = IF r.wrote
                        THEN [tree EXCEPT !.entrypoint = Some(BASH_ENTRYPOINT)]
                        ELSE tree
    /\ UNCHANGED <<launch_project, request, host, tagCalls, dispatchVars, libVars>>

BaseProject ==
    [deps_type |-> None, docker_image |-> None, docker_user_id |-> None,
     python_version |-> None, cuda_base_image |-> None,
     project_dir |-> Some("/project"),
     override_entrypoint |-> None, override_args |-> None]
BaseTree == [requirements |-> None, frozen |-> FALSE, entrypoint |-> None]
BaseHost ==
    [username |-> "alice", euid |-> 501, buildx |-> FALSE,
     parser_resumes |-> TRUE, sys_version |-> <<"3", "11", "4">>]
BaseRequest ==
    [entry_point |-> CHOOSE e \in EntryPoints : e.name = "main.py",
     runner_type |-> "local-container", builder_type |-> "docker"]

\* The composer is not in use.
IdleComposer ==
    /\ launch_project = None
    /\ request = None
    /\ tree = None
    /\ host = None
    /\ calls = <<>>

\* build_image_from_project is not in use.
IdleDispatch ==
    /\ launch_config = None
    /\ pc = "idle"
    /\ frame = None
    /\ events = <<>>
    /\ result = None

\* _create_docker_build_ctx is not in use.
IdleStaging == disk = None /\ stagers = None

\* safe_open is not in use.
IdleSafeOpen == parent = None /\ openers = None

\* No WriteSerializingFile has been made.
IdleSerial == wsf = None /\ threads = None

\* get_docker_user on every combination of image override, user-id override,
\* host user and runner kind.
InitUser ==
    /\ \E image \in {None, Some(""), Some("img")},
          uid \in {None, Some(0), Some(1000)} :
          launch_project = [BaseProject EXCEPT !.docker_image = image,
                                               !.docker_user_id = uid]
    /\ \E name \in {"alice", "root"}, euid \in {0, 501} :
          host = [BaseHost EXCEPT !.username = name, !.euid = euid]
    /\ \E runner \in {"sagemaker", "local-container"} :
          request = [BaseRequest EXCEPT !.runner_type = runner]
    /\ tree = BaseTree
    /\ calls = <<>>
    /\ tagCalls = <<>>
    /\ IdleDispatch
    /\ IdleStaging
    /\ IdleSafeOpen
    /\ IdleSerial

NextUser == GetDockerUser

SpecUser == InitUser /\ [][NextUser]_vars

\* get_requirements_section on every dependency-manager kind, source tree,
\* builder kind and host.
InitReq ==
    /\ \E deps \in {None, Some("pip"), Some("conda")},
          dir \in {None, Some("/project")} :
          launch_project = [BaseProject EXCEPT !.deps_type = deps,
                                               !.project_dir = dir]
    /\ \E reqs \in {None} \cup
                   {Some(l) : l \in Manifests({LineNp, LineNpLower, LineB,
                                               LineBad})},
          frozen \in BOOLEAN :
          tree = [BaseTree EXCEPT !.requirements = reqs, !.frozen = frozen]
    /\ \E buildx \in BOOLEAN, resumes \in BOOLEAN :
          host = [BaseHost EXCEPT !.buildx = buildx,
                                  !.parser_resumes = resumes]
    /\ \E builder \in {"docker", "kaniko", "noop"} :
          request = [BaseRequest EXCEPT !.builder_type = builder]
    /\ calls = <<>>
    /\ tagCalls = <<>>
    /\ IdleDispatch
    /\ IdleStaging
    /\ IdleSafeOpen
    /\ IdleSerial

NextReq == GetRequirementsSection

SpecReq == InitReq /\ [][NextReq]_vars

\* generate_dockerfile on the descriptors, source trees, hosts and launches
\* of a build.
Init ==
    /\ \E deps \in {None, Some("pip"), Some("conda")},
          image \in {None, Some("img")},
          uid \in {None, Some(0), Some(1000)},
          version \in {None, Some(<<"2", "7", "18">>)},
          cuda \in {None, Some("nvidia/cuda:11.0")} :
          launch_project = [BaseProject EXCEPT !.deps_type = deps,
                                               !.docker_image = image,
                                               !.docker_user_id = uid,
                                               !.python_version = version,
                                               !.cuda_base_image = cuda]
    /\ \E reqs \in {None} \cup {Some(l) : l \in Manifests({LineNp, LineB})},
          frozen \in BOOLEAN :
          tree = [BaseTree EXCEPT !.requirements = reqs, !.frozen = frozen]
    /\ \E buildx \in BOOLEAN : host = [BaseHost EXCEPT !.buildx = buildx]
    /\ \E runner \in {"sagemaker", "local-container"},
          builder \in {"docker", "kaniko"},
          entry \in EntryPoints :
          request = [entry_point |-> entry, runner_type |-> runner,
                     builder_type |-> builder]
    /\ calls = <<>>
    /\ tagCalls = <<>>
    /\ IdleDispatch
    /\ IdleStaging
    /\ IdleSafeOpen
    /\ IdleSerial

Next == GenerateDockerfile

Spec == Init /\ [][Next]_vars

----------------------------------------------------------------------------
(* Properties of the composer.                                             *)

CallsOf(fn) == {i \in 1..Len(calls) : calls[i].fn = fn}

\* The index of the first piece of a text that equals p (0: none does).
IndexOf(text, p) ==
    IF \E i \in 1..Len(text) : text[i] = p
    THEN CHOOSE i \in 1..Len(text) :
            text[i] = p /\ \A j \in 1..(i - 1) : text[j] # p
    ELSE 0

\* C1 (SpecUser): with the root-mandating runner, sagemaker, and no image
\* override on the descriptor (none, or an empty one), get_docker_user
\* returns the host's user name and uid 0, whatever the user-id override is.
C1_RootForced ==
    \A i \in CallsOf("get_docker_user") :
        (request.runner_type = "sagemaker"
            /\ launch_project.docker_image \in {None, Some("")})
        => calls[i].out.ret = <<host.username, 0>>

\* get_docker_user has returned uid 0 under sagemaker for a descriptor whose
\* user-id override is 1000, on a host whose uid is 501.
C1_Witness ==
    /\ CallsOf("get_docker_user") # {}
    /\ request.runner_type = "sagemaker"
    /\ launch_project.docker_image = None
    /\ launch_project.docker_user_id = Some(1000)
    /\ host.euid = 501
    /\ calls[1].out.ret = <<host.username, 0>>

\* The cache-mount directives of the recipe.
MountDirectives == {PipCachePrefix, CondaCachePrefix}

\* The piece in front of the install command of a section: in the pip
\* section it follows the COPY line, in the conda section it is the second
\* piece.
InstallPrefix(section) ==
    IF IndexOf(section, " ./\n") # 0
    THEN section[IndexOf(section, " ./\n") + 1]
    ELSE section[2]

\* The cache-mount capability is false: the docker builder without buildx,
\* or the kaniko builder.
NoCacheMount ==
    \/ request.builder_type = "docker" /\ ~host.buildx
    \/ request.builder_type = "kaniko"

PlainInTree == launch_project.project_dir # None /\ tree.requirements # None
FrozenInTree == launch_project.project_dir # None /\ tree.frozen

\* C2 (SpecReq): when the cache-mount capability is false, the section of
\* every dependency-manager variant (pip with the plain manifest only, pip
\* with the frozen manifest, conda) is returned with its install command
\* prefixed by RUN WANDB_DISABLE_CACHE=true, and no section holds a
\* --mount=type=cache directive.
C2_CacheDisabledWithoutMount ==
    \A i \in CallsOf("get_requirements_section") :
        NoCacheMount =>
          /\ ((launch_project.deps_type = Some("pip")
                  /\ (PlainInTree \/ FrozenInTree))
              \/ launch_project.deps_type = Some("conda"))
             => /\ calls[i].out.raised = ""
                /\ InstallPrefix(calls[i].out.ret)
                     = "RUN WANDB_DISABLE_CACHE=true"
          /\ \A k \in 1..Len(calls[i].out.ret) :
                calls[i].out.ret[k] \notin MountDirectives

\* The kaniko builder on a host that has buildx has returned a pip section
\* for a frozen manifest, with the cache disabled.
C2_Witness ==
    /\ CallsOf("get_requirements_section") # {}
    /\ request.builder_type = "kaniko"
    /\ host.buildx
    /\ launch_project.deps_type = Some("pip")
    /\ FrozenInTree
    /\ calls[1].out.raised = ""
    /\ InstallPrefix(calls[1].out.ret) = "RUN WANDB_DISABLE_CACHE=true"

RECURSIVE SplitOn(_, _, _)
\* The strings between the separators sep of a text, given the string cur
\* read so far.
SplitOn(text, sep, cur) ==
    IF text = <<>> THEN {cur}
    ELSE IF Head(text) = sep THEN {cur} \cup SplitOn(Tail(text), sep, <<>>)
    ELSE SplitOn(Tail(text), sep, Append(cur, Head(text)))

\* The names of the WANDB_ONLY_INCLUDE filter of a section, as a set.
FilterNames(section) ==
    LET from == IndexOf(section, "WANDB_ONLY_INCLUDE=")
        rest == SubSeq(section, from + 1, Len(section))
        list == SubSeq(rest, 1, IndexOf(rest, " ") - 1)
    IN IF list = <<>> THEN {} ELSE SplitOn(list, ",", <<>>)

\* The files of the COPY line of a pip section, separated by blanks.
CopiedFiles(section) ==
    LET from == IndexOf(section, "\nRUN python -m venv /env\n# make sure we install into the env\nENV PATH=\"/env/bin:$PATH\"\nCOPY ")
        to == IndexOf(section, " ./\n")
    IN {section[k] : k \in (from + 1)..(to - 1)} \ {" "}

\* The names of the requirements the parser yields from requirements.txt:
\* those of the lines that parse, up to the first line that does not when
\* the parser is a generator, which that line ends.
ParsedNames ==
    LET lines == tree.requirements[1]
    IN {lines[k].name : k \in {j \in 1..Len(lines) :
            /\ lines[j].kind = "req"
            /\ (host.parser_resumes
                \/ \A n \in 1..j : lines[n].kind = "req")}}

\* q is name in lower case.
IsLowerCaseOf(q, name) ==
    /\ Len(q) = Len(name)
    /\ \A k \in 1..Len(name) :
          IF \E n \in 1..26 : UpperCase[n] = name[k]
          THEN \E n \in 1..26 : UpperCase[n] = name[k] /\ q[k] = LowerCase[n]
          ELSE q[k] = name[k]

C4_AbsentManifestsNonFatal ==
    \A i \in CallsOf("get_requirements_section") :
        (\/ launch_project.deps_type = None
         \/ /\ launch_project.deps_type = Some("pip")
            /\ launch_project.project_dir # None
            /\ tree.requirements = None
            /\ ~tree.frozen)
        => /\ calls[i].out.raised = ""
           /\ calls[i].out.ret = <<"RUN mkdir -p env/">>
           /\ \E k \in 1..Len(calls[i].out.warnings) :
                 calls[i].out.warnings[k]
                    = "No requirements file found. No packages will be installed."

\* C5: two calls of generate_dockerfile with the same descriptor, entry
\* point, runner kind, builder kind, source tree and host facts (all of
\* which a behaviour keeps; the first call adds only the wrapper script to
\* the tree) end alike and return byte-identical recipe text.
C5_Deterministic ==
    \A i, j \in CallsOf("generate_dockerfile") :
        /\ calls[i].out.raised = calls[j].out.raised
        /\ Flat(calls[i].out.ret) = Flat(calls[j].out.ret)

----------------------------------------------------------------------------
(* hashlib.sha256 (FIPS 180-4) on 32-bit words.  A word is a pair          *)
(* <<high half, low half>> of 16-bit halves, so that no intermediate       *)
(* value leaves the range of the model checker's integers.                 *)

RECURSIVE BitOp4(_, _, _, _)
BitOp4(x, y, n, isXor) ==
    IF n = 0 THEN 0
    ELSE LET bx == x % 2
             by == y % 2
             b == IF isXor THEN (bx + by) % 2 ELSE bx * by
         IN b + 2 * BitOp4(x \div 2, y \div 2, n - 1, isXor)

Xor4 == [x \in 0..15 |-> [y \in 0..15 |-> BitOp4(x, y, 4, TRUE)]]
And4 == [x \in 0..15 |-> [y \in 0..15 |-> BitOp4(x, y, 4, FALSE)]]

Xor16(a, b) ==
    Xor4[a \div 4096][b \div 4096] * 4096
    + Xor4[(a \div 256) % 16][(b \div 256) % 16] * 256
    + Xor4[(a \div 16) % 16][(b \div 16) % 16] * 16
    + Xor4[a % 16][b % 16]

And16(a, b) ==
    And4[a \div 4096][b \div 4096] * 4096
    + And4[(a \div 256) % 16][(b \div 256) % 16] * 256
    + And4[(a \div 16) % 16][(b \div 16) % 16] * 16
    + And4[a % 16][b % 16]

XorW(a, b) == <<Xor16(a[1], b[1]), Xor16(a[2], b[2])>>
AndW(a, b) == <<And16(a[1], b[1]), And16(a[2], b[2])>>
NotW(a) == <<65535 - a[1], 65535 - a[2]>>

AddW(a, b) ==
    LET lo == a[2] + b[2]
        hi == a[1] + b[1] + (lo \div 65536)
    IN <<hi % 65536, lo % 65536>>

Rotr16(a, n) ==
    LET p == 2 ^ n
        q == 2 ^ (16 - n)
    IN <<(a[1] \div p) + (a[2] % p) * q, (a[2] \div p) + (a[1] % p) * q>>

RotrW(a, n) == IF n >= 16 THEN Rotr16(<<a[2], a[1]>>, n - 16) ELSE Rotr16(a, n)

ShrW(a, n) ==
    IF n >= 16 THEN <<0, a[1] \div (2 ^ (n - 16))>>
    ELSE LET p == 2 ^ n
             q == 2 ^ (16 - n)
         IN <<a[1] \div p, (a[2] \div p) + (a[1] % p) * q>>

ShaK == <<
    <<17034, 12184>>, <<28983, 17553>>, <<46528, 64463>>, <<59829, 56229>>,
    <<14678, 49755>>, <<23025, 4593>>, <<37439, 33444>>, <<43804, 24277>>,
    <<55303, 43672>>, <<4739, 23297>>, <<9265, 34238>>, <<21772, 32195>>,
    <<29374, 23924>>, <<32990, 45566>>, <<39900, 1703>>, <<49563, 61812>>,
    <<58523, 27073>>, <<61374, 18310>>, <<4033, 40390>>, <<9228, 41420>>,
    <<11753, 11375>>, <<19060, 33962>>, <<23728, 43484>>, <<30457, 35034>>,
    <<38974, 20818>>, <<43057, 50797>>, <<45059, 10184>>, <<48985, 32711>>,
    <<50912, 3059>>, <<54695, 37191>>, <<1738, 25425>>, <<5161, 10599>>,
    <<10167, 2693>>, <<11803, 8504>>, <<19756, 28156>>, <<21304, 3347>>,
    <<25866, 29524>>, <<30314, 2747>>, <<33218, 51502>>, <<37490, 11397>>,
    <<41663, 59553>>, <<43034, 26187>>, <<49739, 35696>>, <<51052, 20899>>,
    <<53650, 59417>>, <<54937, 1572>>, <<62478, 13701>>, <<4202, 41072>>,
    <<6564, 49430>>, <<7735, 27656>>, <<10056, 30540>>, <<13488, 48309>>,
    <<14620, 3251>>, <<20184, 43594>>, <<23452, 51791>>, <<26670, 28659>>,
    <<29839, 33518>>, <<30885, 25455>>, <<33992, 30740>>, <<36039, 520>>,
    <<37054, 65530>>, <<42064, 27883>>, <<48889, 41975>>, <<50801, 30962>>
    >>

ShaH0 == <<
    <<27145, 58983>>, <<47975, 44677>>, <<15470, 62322>>, <<42319, 62778>>,
    <<20750, 21119>>, <<39685, 26764>>, <<8067, 55723>>, <<23520, 52505>>
    >>

SmallSigma0(x) == XorW(XorW(RotrW(x, 7), RotrW(x, 18)), ShrW(x, 3))
SmallSigma1(x) == XorW(XorW(RotrW(x, 17), RotrW(x, 19)), ShrW(x, 10))
BigSigma0(x) == XorW(XorW(RotrW(x, 2), RotrW(x, 13)), RotrW(x, 22))
BigSigma1(x) == XorW(XorW(RotrW(x, 6), RotrW(x, 11)), RotrW(x, 25))
Ch(x, y, z) == XorW(AndW(x, y), AndW(NotW(x), z))
Maj(x, y, z) == XorW(XorW(AndW(x, y), AndW(x, z)), AndW(y, z))

(* The message with its padding: 0x80, zeros up to 56 mod 64, then the     *)
(* length in bits as 8 big-endian bytes (the model's messages are shorter  *)
(* than 2^13 bytes, so the upper 6 length bytes are zero).                 *)
ShaPad(bytes) ==
    LET n == Len(bytes)
        z == (119 - (n % 64)) % 64
        bits == n * 8
    IN bytes \o <<128>> \o [i \in 1..z |-> 0]
       \o <<0, 0, 0, 0, 0, 0, bits \div 256, bits % 256>>

\* The 16 big-endian words of block b (counted from 0) of a padded message.
ShaBlock(padded, b) ==
    [i \in 1..16 |->
        LET o == 64 * b + 4 * (i - 1)
        IN <<padded[o + 1] * 256 + padded[o + 2],
             padded[o + 3] * 256 + padded[o + 4]>>]

\* A word of the model: both halves in range.  The loops below test it on
\* every word they are handed, which also has each round's result computed
\* before the next round starts.
IsWord(x) == x[1] \in 0..65535 /\ x[2] \in 0..65535

RECURSIVE ShaSchedule(_)
ShaSchedule(w) ==
    IF Len(w) = 64 \/ ~IsWord(w[Len(w)]) THEN w
    ELSE LET t == Len(w) + 1
             next == AddW(AddW(SmallSigma1(w[t - 2]), w[t - 7]),
                          AddW(SmallSigma0(w[t - 15]), w[t - 16]))
         IN ShaSchedule(Append(w, next))

RECURSIVE ShaRounds(_, _, _)
ShaRounds(s, w, t) ==
    IF t > 64 \/ ~(\A i \in 1..8 : IsWord(s[i])) THEN s
    ELSE LET t1 == AddW(AddW(AddW(s[8], BigSigma1(s[5])),
                             AddW(Ch(s[5], s[6], s[7]), ShaK[t])), w[t])
             t2 == AddW(BigSigma0(s[1]), Maj(s[1], s[2], s[3]))
         IN ShaRounds(<<AddW(t1, t2), s[1], s[2], s[3],
                        AddW(s[4], t1), s[5], s[6], s[7]>>, w, t + 1)

ShaCompress(h, block) ==
    LET s == ShaRounds(h, ShaSchedule(block), 1)
    IN [i \in 1..8 |-> AddW(h[i], s[i])]

RECURSIVE ShaBlocks(_, _, _)
ShaBlocks(h, padded, b) ==
    IF 64 * b >= Len(padded) THEN h
    ELSE ShaBlocks(ShaCompress(h, ShaBlock(padded, b)), padded, b + 1)

\* hashlib.sha256(bytes).digest() as 8 words.
Sha256(bytes) == ShaBlocks(ShaH0, ShaPad(bytes), 0)

HexDigits == <<"0", "1", "2", "3", "4", "5", "6", "7",
               "8", "9", "a", "b", "c", "d", "e", "f">>

Hex16(h) == <<HexDigits[(h \div 4096) + 1], HexDigits[((h \div 256) % 16) + 1],
              HexDigits[((h \div 16) % 16) + 1], HexDigits[(h % 16) + 1]>>

RECURSIVE HexWords(_)
HexWords(ws) ==
    IF ws = <<>> THEN <<>>
    ELSE Hex16(Head(ws)[1]) \o Hex16(Head(ws)[2]) \o HexWords(Tail(ws))

\* .hexdigest(): the 64 lowercase hexadecimal characters of the digest.
HexDigest(bytes) == HexWords(Sha256(bytes))

\* str.encode("utf-8") of a sequence of code points.
Utf8Char(c) ==
    IF c < 128 THEN <<c>>
    ELSE IF c < 2048 THEN <<192 + (c \div 64), 128 + (c % 64)>>
    ELSE IF c < 65536
         THEN <<224 + (c \div 4096), 128 + ((c \div 64) % 64), 128 + (c % 64)>>
    ELSE <<240 + (c \div 262144), 128 + ((c \div 4096) % 64),
           128 + ((c \div 64) % 64), 128 + (c % 64)>>

RECURSIVE Utf8Encode(_)
Utf8Encode(s) ==
    IF s = <<>> THEN <<>> ELSE Utf8Char(Head(s)) \o Utf8Encode(Tail(s))

----------------------------------------------------------------------------
(* ImageTagger                                                             *)

\* The code points the tagger's inputs are drawn from: "a" and e-acute.
TagAlphabet == {97, 233}

StringsUpTo(n) == UNION {[1..k -> TagAlphabet] : k \in 1..n}

\* <<s, hashlib.sha256(s.encode("utf-8")).hexdigest()>> for every string s
\* the model can hash, computed once.
HexDigestTable ==
    {<<s, HexDigest(Utf8Encode(s))>> : s \in StringsUpTo(MaxSrcLen + MaxDfLen)}

HexDigestOf(s) == (CHOOSE p \in HexDigestTable : p[1] = s)[2]

\* A slip in the order of the concatenation: recipe text first.
image_tag_swapped(image_source_string, dockerfile_contents) ==
    LET unique_id_string == dockerfile_contents \o image_source_string
    IN SubSeq(HexDigestOf(unique_id_string), 1, 8)

\* image_tag_from_dockerfile_and_source, given launch_project's
\* get_image_source_string() and the recipe text.
image_tag_from_dockerfile_and_source(image_source_string, dockerfile_contents) ==
    LET unique_id_string == image_source_string \o dockerfile_contents
    IN SubSeq(HexDigestOf(unique_id_string), 1, 8)

InitTag ==
    /\ tagCalls = <<>>
    /\ IdleComposer
    /\ IdleDispatch
    /\ IdleStaging
    /\ IdleSafeOpen
    /\ IdleSerial

\* One call of image_tag_from_dockerfile_and_source; the model keeps the
\* last two calls.
ImageTag ==
    /\ \E src \in StringsUpTo(MaxSrcLen), df \in StringsUpTo(MaxDfLen) :
          LET call == [source |-> src, dockerfile |-> df,
                       tag |-> image_tag_from_dockerfile_and_source(src, df)]
          IN tagCalls' = IF Len(tagCalls) < 2 THEN Append(tagCalls, call)
                         ELSE <<tagCalls[2], call>>
    /\ UNCHANGED <<composerVars, dispatchVars, libVars>>

NextTag == ImageTag

SpecTag == InitTag /\ [][NextTag]_vars

----------------------------------------------------------------------------
(* BuilderDispatcher: build_image_from_project, one step per call it makes *)
(* of a collaborator (the loader, the project, the builder).  A            *)
(* collaborator returns or raises; which, the dispatcher does not decide.  *)

\* A value of the launch configuration: its type's name and str() of it.
EmptyDict == [type |-> "dict", text |-> "{}"]
ConfigValues ==
    { [type |-> "dict", text |-> "{'type': 'gcp'}"],
      [type |-> "list", text |-> "['gcr.io']"],
      [type |-> "str", text |-> "gcr.io"],
      [type |-> "NoneType", text |-> "None"] }

\* The launch configurations: None, or a mapping in which each of the three
\* keys is missing or has a value.
LaunchConfigs ==
    {None} \cup
    {Some(c) : c \in [environment : {None} \cup {Some(v) : v \in ConfigValues},
                      registry : {None} \cup {Some(v) : v \in ConfigValues},
                      builder : {None} \cup {Some(v) : v \in ConfigValues}]}

\* (launch_config or {}).get(key, {})
Section(lc, key) ==
    IF lc = None THEN EmptyDict
    ELSE IF lc[1][key] = None THEN EmptyDict
    ELSE lc[1][key][1]

\* The test taking an explicit null for a missing section.
IsMappingOrNull(v) == v.type \in {"dict", "NoneType"}

\* isinstance(v, dict)
IsMapping(v) == v.type = "dict"

\* The LaunchError of a section that is not a mapping.
InvalidConfigError(key, v) ==
    [type |-> "LaunchError",
     message |-> <<"Invalid ", key, " config: ", v.text, " of type ", v.type,
                   " loaded from launch config. Expected dict.">>]
NoBuilderError ==
    [type |-> "LaunchError",
     message |-> <<"Unable to build image. No builder found.">>]
NoImageError ==
    [type |-> "LaunchError", message |-> <<"Error building image uri">>]

\* What a collaborator raises when it fails.
FailureOf(fn) == [type |-> "Exception", message |-> <<fn, " failed">>]

\* The check for a builder skipped.
NoBuilderNever(builder) == FALSE

\* not builder
NoBuilder(builder) == builder = None

\* The test for an image reference taking only None for a missing one.
NoImageOnlyNone(image_uri) == image_uri = None

\* not image_uri
NoImage(image_uri) == ~TruthyStr(image_uri)

\* The statement raises e: the call ends, e reaches the caller.
RaiseFrom(fn, e) ==
    /\ pc' = "done"
    /\ result' = Some([kind |-> "raised", exception |-> e, by |-> fn])

\* A call of collaborator fn returned or raised (returned), as the log has it.
Called(fn, args, returned, value) ==
    events' = Append(events, [call |-> fn, args |-> args,
                               returned |-> returned, value |-> value])

\* A call of build_image_from_project has been entered: launch_project.uri
\* is set, as the assertion wants, and nothing is resolved yet.
InitBuild ==
    /\ launch_config \in LaunchConfigs
    /\ pc = "environment"
    /\ \E entry \in {None, Some("project entry point")} :
          frame = [launch_project |-> [uri |-> "uri", fetched |-> FALSE,
                                       single_entry_point |-> entry],
                   environment |-> None, registry |-> None, builder |-> None,
                   entry_point |-> None]
    /\ events = <<>>
    /\ result = None
    /\ IdleComposer
    /\ tagCalls = <<>>
    /\ IdleStaging
    /\ IdleSafeOpen
    /\ IdleSerial

\* The environment section is checked, then resolved.
ResolveEnvironment ==
    /\ pc = "environment"
    /\ LET env_config == Section(launch_config, "environment")
           environment == [object |-> "Environment", config |-> env_config]
       IN IF ~IsMapping(env_config)
          THEN /\ RaiseFrom("build_image_from_project",
                            InvalidConfigError("environment", env_config))
               /\ UNCHANGED <<frame, events>>
          ELSE \/ /\ Called("environment_from_config", <<env_config>>,
                            TRUE, Some(environment))
                  /\ frame' = [frame EXCEPT !.environment = Some(environment)]
                  /\ pc' = "registry"
                  /\ UNCHANGED result
               \/ /\ Called("environment_from_config", <<env_config>>,
                            FALSE, None)
                  /\ RaiseFrom("environment_from_config",
                               FailureOf("environment_from_config"))
                  /\ UNCHANGED frame
    /\ UNCHANGED <<launch_config, composerVars, tagCalls, libVars>>

\* The registry section is checked, then resolved with the environment.
ResolveRegistry ==
    /\ pc = "registry"
    /\ LET registry_config == Section(launch_config, "registry")
           args == <<registry_config, frame.environment>>
           registry == [object |-> "Registry", config |-> registry_config,
                        environment |-> frame.environment]
       IN IF ~IsMapping(registry_config)
          THEN /\ RaiseFrom("build_image_from_project",
                            InvalidConfigError("registry", registry_config))
               /\ UNCHANGED <<frame, events>>
          ELSE \/ /\ Called("registry_from_config", args, TRUE, Some(registry))
                  /\ frame' = [frame EXCEPT !.registry = Some(registry)]
                  /\ pc' = "builder"
                  /\ UNCHANGED result
               \/ /\ Called("registry_from_config", args, FALSE, None)
                  /\ RaiseFrom("registry_from_config",
                               FailureOf("registry_from_config"))
                  /\ UNCHANGED frame
    /\ UNCHANGED <<launch_config, composerVars, tagCalls, libVars>>

\* The builder section is checked, then resolved with the environment and
\* the registry; no builder is an error.
ResolveBuilder ==
    /\ pc = "builder"
    /\ LET builder_config == Section(launch_config, "builder")
           args == <<builder_config, frame.environment, frame.registry>>
           made == [object |-> "Builder", config |-> builder_config,
                    environment |-> frame.environment,
                    registry |-> frame.registry]
       IN IF ~IsMapping(builder_config)
          THEN /\ RaiseFrom("build_image_from_project",
                            InvalidConfigError("builder", builder_config))
               /\ UNCHANGED <<frame, events>>
          ELSE \/ \E builder \in {None, Some(made)} :
                     /\ Called("builder_from_config", args, TRUE, builder)
                     /\ frame' = [frame EXCEPT !.builder = builder]
                     /\ IF NoBuilder(builder)
                        THEN RaiseFrom("build_image_from_project",
                                       NoBuilderError)
                        ELSE pc' = "fetch" /\ UNCHANGED result
               \/ /\ Called("builder_from_config", args, FALSE, None)
                  /\ RaiseFrom("builder_from_config",
                               FailureOf("builder_from_config"))
                  /\ UNCHANGED frame
    /\ UNCHANGED <<launch_config, composerVars, tagCalls, libVars>>

\* The project is fetched and validated, and its entry point chosen: its
\* single entry point, or the default one.
FetchProject ==
    /\ pc = "fetch"
    /\ \/ /\ Called("fetch_and_validate_project", <<frame.launch_project>>,
                    TRUE, Some([frame.launch_project EXCEPT !.fetched = TRUE]))
          /\ frame' =
                [frame EXCEPT
                    !.launch_project = [@ EXCEPT !.fetched = TRUE],
                    !.entry_point =
                        IF frame.launch_project.single_entry_point # None
                        THEN frame.launch_project.single_entry_point
                        ELSE Some("EntrypointDefaults.PYTHON")]
          /\ pc' = "build"
          /\ UNCHANGED result
       \/ /\ Called("fetch_and_validate_project", <<frame.launch_project>>,
                    FALSE, None)
          /\ RaiseFrom("fetch_and_validate_project",
                       FailureOf("fetch_and_validate_project"))
          /\ UNCHANGED frame
    /\ UNCHANGED <<launch_config, composerVars, tagCalls, libVars>>

\* The builder builds; no image reference is an error.
BuildImage ==
    /\ pc = "build"
    /\ LET args == <<frame.builder, frame.launch_project, frame.entry_point>>
       IN \/ \E image_uri \in {None, Some(""), Some("registry/image:tag")} :
                /\ Called("build_image", args, TRUE, image_uri)
                /\ IF NoImage(image_uri)
                   THEN RaiseFrom("build_image_from_project", NoImageError)
                   ELSE /\ pc' = "done"
                        /\ result' = Some([kind |-> "returned",
                                           value |-> image_uri[1]])
          \/ /\ Called("build_image", args, FALSE, None)
             /\ RaiseFrom("build_image", FailureOf("build_image"))
    /\ UNCHANGED <<launch_config, frame, composerVars, tagCalls, libVars>>

NextBuild ==
    \/ ResolveEnvironment
    \/ ResolveRegistry
    \/ ResolveBuilder
    \/ FetchProject
    \/ BuildImage

SpecBuild == InitBuild /\ [][NextBuild]_vars

----------------------------------------------------------------------------
(* Properties of the BuilderDispatcher, under SpecBuild.                   *)

ConfigKeys == <<"environment", "registry", "builder">>

\* The value the launch configuration has under a key, {} when the
\* configuration or the key is missing.
ValueUnder(key) ==
    IF launch_config = None \/ launch_config[1][key] = None
    THEN [type |-> "dict", text |-> "{}"]
    ELSE launch_config[1][key][1]

\* The keys whose value is not a mapping, by position in ConfigKeys.
NotMappings == {k \in 1..3 : ValueUnder(ConfigKeys[k]).type # "dict"}

EventsOf(fn) == {i \in 1..Len(events) : events[i].call = fn}

\* The LaunchError that names a key's value and the type of that value.
TypedError(k) ==
    [type |-> "LaunchError",
     message |-> <<"Invalid ", ConfigKeys[k], " config: ",
                   ValueUnder(ConfigKeys[k]).text, " of type ",
                   ValueUnder(ConfigKeys[k]).type,
                   " loaded from launch config. Expected dict.">>]

Ended == pc = "done"
EndedRaising(e) == Ended /\ result # None /\ result[1].kind = "raised"
                         /\ result[1].exception = e

\* C8, as claimed: if the value under one of the three keys is not a
\* mapping, the call ends in a LaunchError that names such a value and its
\* type, whatever the other sections hold, and build_image is never called.
C8_TypedErrorWhateverOthers ==
    (Ended /\ NotMappings # {})
    => /\ \E k \in NotMappings : EndedRaising(TypedError(k))
       /\ EventsOf("build_image") = {}

\* C8, amended: if the value under one of the three keys is not a mapping,
\* the call ends by raising and build_image is never called; what it raises
\* is the LaunchError naming the value and type of the first such key in the
\* order environment, registry, builder, unless the resolution of an earlier
\* section raised, and then it is that failure.
C8_TypedErrorOfFirstUnlessEarlierFails ==
    (Ended /\ NotMappings # {})
    => LET first == CHOOSE k \in NotMappings : \A n \in NotMappings : k <= n
           earlier == {<<"environment_from_config", "registry_from_config",
                         "builder_from_config">>[k] : k \in 1..(first - 1)}
       IN /\ result # None
          /\ result[1].kind = "raised"
          /\ EventsOf("build_image") = {}
          /\ \/ /\ result[1].exception = TypedError(first)
                /\ result[1].by = "build_image_from_project"
                /\ \A fn \in earlier :
                      \E i \in EventsOf(fn) : events[i].returned
             \/ /\ result[1].by \in earlier
                /\ \E i \in EventsOf(result[1].by) : ~events[i].returned

\* The call has ended in the typed error of a registry section that is a
\* list, after the environment was resolved.
C8_Witness ==
    /\ Ended
    /\ ValueUnder("environment").type = "dict"
    /\ ValueUnder("registry").type = "list"
    /\ ValueUnder("builder").type = "NoneType"
    /\ EventsOf("environment_from_config") # {}
    /\ EndedRaising(TypedError(2))

\* C9: the environment is resolved before the registry and the registry,
\* with that environment, before the builder, with both; when the builder
\* resolution yields no builder the call ends in the LaunchError for it, and
\* neither fetch_and_validate_project nor build_image has been called.
C9_ResolutionOrder ==
    /\ \A i \in EventsOf("registry_from_config") :
          \E j \in EventsOf("environment_from_config") :
             /\ j < i
             /\ events[j].returned
             /\ events[i].args[2] = events[j].value
    /\ \A i \in EventsOf("builder_from_config") :
          \E j \in EventsOf("registry_from_config") :
             /\ j < i
             /\ events[j].returned
             /\ events[i].args[3] = events[j].value
             /\ events[i].args[2] = events[j].args[2]
    /\ \A i \in EventsOf("fetch_and_validate_project") \cup EventsOf("build_image") :
          \E j \in EventsOf("builder_from_config") :
             j < i /\ events[j].returned /\ events[j].value # None
    /\ \A i \in EventsOf("builder_from_config") :
          (events[i].returned /\ events[i].value = None)
          => /\ EndedRaising([type |-> "LaunchError",
                              message |-> <<"Unable to build image. No builder found.">>])
             /\ EventsOf("fetch_and_validate_project") = {}
             /\ EventsOf("build_image") = {}

\* builder_from_config has returned no builder, after the environment and
\* the registry were resolved, and the call has ended in the LaunchError.
C9_Witness ==
    /\ Len(events) = 3
    /\ events[3].call = "builder_from_config"
    /\ events[3].returned
    /\ events[3].value = None
    /\ Ended
    /\ result[1].kind = "raised"
    /\ result[1].exception.type = "LaunchError"

\* C10: build_image is called at most once, and so is every other
\* collaborator; when it returns no image reference (None or "") the call
\* raises LaunchError, otherwise the call returns the reference build_image
\* returned; a collaborator that raises is the last one called, and what it
\* raised is what the call ends in.
C10_NoRetries ==
    /\ \A i, j \in 1..Len(events) : events[i].call = events[j].call => i = j
    /\ \A i \in EventsOf("build_image") :
          /\ Ended
          /\ (events[i].returned /\ events[i].value \in {None, Some("")})
             => EndedRaising([type |-> "LaunchError",
                              message |-> <<"Error building image uri">>])
          /\ (events[i].returned /\ events[i].value \notin {None, Some("")})
             => result = Some([kind |-> "returned",
                               value |-> events[i].value[1]])
    /\ \A i \in 1..Len(events) :
          ~events[i].returned
          => /\ i = Len(events)
             /\ Ended
             /\ result[1].kind = "raised"
             /\ result[1].by = events[i].call
             /\ result[1].exception = FailureOf(events[i].call)
    /\ (Ended /\ result[1].kind = "returned") => EventsOf("build_image") # {}

\* build_image was called once, returned the empty string, and the call has
\* ended in the LaunchError.
C10_Witness ==
    /\ Ended
    /\ \E i \in EventsOf("build_image") :
          events[i].returned /\ events[i].value = Some("")
    /\ result[1].kind = "raised"
    /\ result[1].exception.message = <<"Error building image uri">>

----------------------------------------------------------------------------
(* Properties of the ImageTagger, under SpecTag.                           *)

TagConcat(c) == c.source \o c.dockerfile

\* Digests published by an independent SHA-256 implementation (CPython's
\* hashlib), first 8 hexadecimal characters, for some UTF-8 encoded strings
\* over TagAlphabet.
ReferenceTags ==
    { << <<97, 97>>,      <<"9", "6", "1", "b", "6", "d", "d", "3">> >>,
      << <<97, 233>>,     <<"5", "6", "1", "9", "5", "1", "c", "2">> >>,
      << <<233, 97>>,     <<"8", "0", "5", "c", "5", "8", "e", "8">> >>,
      << <<233, 233>>,    <<"f", "1", "3", "c", "0", "0", "7", "a">> >>,
      << <<97, 97, 97>>,  <<"9", "8", "3", "4", "8", "7", "6", "d">> >>,
      << <<97, 233, 97>>, <<"5", "4", "6", "f", "3", "f", "5", "e">> >> }

LowerHexChars == {HexDigits[i] : i \in 1..16}

\* C6: the tag is a function of the concatenation (image source identity
\* followed by recipe text) alone: two calls whose concatenations are equal
\* return the same tag, in particular a repeated call does; every tag is 8
\* lowercase hexadecimal characters, the first 8 of the SHA-256 hex digest of
\* the UTF-8 encoded concatenation (checked against published digests).
C6_TagIsDigestPrefixOfConcatenation ==
    /\ \A i \in 1..Len(tagCalls) :
          /\ Len(tagCalls[i].tag) = 8
          /\ \A k \in 1..8 : tagCalls[i].tag[k] \in LowerHexChars
          /\ \A r \in ReferenceTags :
                TagConcat(tagCalls[i]) = r[1] => tagCalls[i].tag = r[2]
    /\ \A i, j \in 1..Len(tagCalls) :
          TagConcat(tagCalls[i]) = TagConcat(tagCalls[j])
              => tagCalls[i].tag = tagCalls[j].tag

\* Two calls are recorded, the second repeats the first one's inputs, and
\* both returned the same published tag.
C6_Witness ==
    /\ Len(tagCalls) = 2
    /\ tagCalls[1].source = <<97>>
    /\ tagCalls[1].dockerfile = <<233, 97>>
    /\ tagCalls[2].source = tagCalls[1].source
    /\ tagCalls[2].dockerfile = tagCalls[1].dockerfile
    /\ tagCalls[1].tag = <<"5", "4", "6", "f", "3", "f", "5", "e">>
    /\ tagCalls[2].tag = tagCalls[1].tag

\* C7: any change to either input changes the tag: two calls that differ
\* in the image source identity or in the recipe text return different tags.
C7_AnyChangeChangesTag ==
    \A i, j \in 1..Len(tagCalls) :
        (tagCalls[i].source # tagCalls[j].source
            \/ tagCalls[i].dockerfile # tagCalls[j].dockerfile)
        => tagCalls[i].tag # tagCalls[j].tag

----------------------------------------------------------------------------
(* Further properties of the composer.                                     *)

\* The root-forcing case of get_docker_user: the sagemaker runner and no
\* image override on the descriptor.
RootForcing ==
    /\ request.runner_type = "sagemaker"
    /\ launch_project.docker_image \in {None, Some("")}

\* C11 (SpecUser): outside the root-forcing case, get_docker_user returns
\* the descriptor's user-id override as the uid whenever there is one, 0
\* included, and the host's effective uid only when there is none.
C11_OverrideWhenPresent ==
    \A i \in CallsOf("get_docker_user") :
        ~RootForcing
        => calls[i].out.ret[2] =
              IF launch_project.docker_user_id # None
              THEN launch_project.docker_user_id[1]
              ELSE host.euid

----------------------------------------------------------------------------
(* BuildContextStager: _create_docker_build_ctx, one step per statement    *)
(* that touches the file system, and get_entrypoint_setup's write, on the  *)
(* source trees of two projects.  Invocations interleave.                  *)

MaxStagers == 2

Projects == {"A", "B"}
Stagers == 1..MaxStagers

\* The names a source tree may hold; the last one is left out of the copy.
TreeNames ==
    {"main.py", "runtime.txt", "pin.txt", DEFAULT_ENTRYPOINT,
     "fsmonitor--daemon.ipc"}
StageNames == {"_wandb_bootstrap.py", _GENERATED_DOCKERFILE_NAME}

\* What a directory has under a name: nothing (None), a regular file, or a
\* symbolic link, to a name of the same directory (root ".") or, absolute,
\* to a name of a project's source tree.
File(content) == [kind |-> "file", content |-> content]
Link(root, name) == [kind |-> "link", root |-> root, name |-> name]

\* The directories: a project's source tree, the src/ of a staging directory.
TreeOf(p) == <<"tree", p>>
SrcOf(d) == <<"src", d>>

Dir(dk, loc) ==
    IF loc[1] = "tree" THEN dk.trees[loc[2]] ELSE dk.stages[loc[2]][1].src[1]

\* The file that open(loc/name) opens: symbolic links are followed.
Resolve(dk, loc, name) ==
    LET node == Dir(dk, loc)[name]
    IN IF node # None /\ node.kind = "link"
       THEN IF node.root = "." THEN <<loc, node.name>>
            ELSE <<TreeOf(node.root), node.name>>
       ELSE <<loc, name>>

\* with open(loc/name, "w") as fp: fp.write(content)
WriteFile(dk, loc, name, content) ==
    LET at == Resolve(dk, loc, name)
    IN IF at[1][1] = "tree"
       THEN [dk EXCEPT !.trees[at[1][2]][at[2]] = File(content)]
       ELSE [dk EXCEPT !.stages[at[1][2]] =
                Some([@[1] EXCEPT !.src =
                         Some([@[1] EXCEPT ![at[2]] = File(content)])])]

\* shutil.copytree(src, dst, symlinks=True,
\*                 ignore=shutil.ignore_patterns("fsmonitor--daemon.ipc"))
CopyTree(src) ==
    [n \in TreeNames |->
        IF n = "fsmonitor--daemon.ipc" THEN None ELSE src[n]]

BootstrapSource == "templates/_wandb_bootstrap.py"

\* A staging directory right after tempfile.mkdtemp().
EmptyStage == [src |-> None, top |-> [n \in StageNames |-> None]]

\* The source trees a build may be given.
SourceTrees(p) ==
    { [n \in TreeNames |->
          CASE n = "main.py" -> File(<<p, "/main.py">>)
            [] n = "runtime.txt" -> runtime
            [] n = "pin.txt" -> pin
            [] n = "fsmonitor--daemon.ipc" ->
                  IF p = "A" THEN File(<<"socket">>) ELSE None
            [] OTHER -> None] :
      runtime \in IF p = "A"
                  THEN {None, File(<<"python-2.7">>), Link(".", "pin.txt"),
                        Link("A", "pin.txt"), Link("B", "pin.txt")}
                  ELSE {None, File(<<"python-2.7">>)},
      pin \in IF p = "A" THEN {None, File(<<"pin">>)} ELSE {File(<<"pin">>)} }

\* disk.given keeps the source trees as the builds were given them.
\* Invocation s of _create_docker_build_ctx(launch_project,
\* dockerfile_contents) is about to run; project_dir is set, as the
\* assertion wants.
InitCtx ==
    /\ \E trees \in [Projects -> UNION {SourceTrees(p) : p \in Projects}] :
          /\ \A p \in Projects : trees[p] \in SourceTrees(p)
          /\ disk = [trees |-> trees, given |-> trees,
                     stages |-> [d \in Stagers |-> None]]
    /\ \E projs \in [Stagers -> Projects],
          versions \in [Stagers -> {None, Some("3.9")}] :
          /\ projs[1] = "A"
          /\ stagers =
                [s \in Stagers |->
                    [launch_project |-> [project_dir |-> projs[s],
                                         python_version |-> versions[s]],
                     dockerfile_contents |-> <<"FROM ", ToString(s)>>,
                     pc |-> "mkdtemp",
                     directory |-> None]]
    /\ IdleComposer
    /\ tagCalls = <<>>
    /\ IdleDispatch
    /\ IdleSafeOpen
    /\ IdleSerial

\* directory = tempfile.mkdtemp(): a directory that did not exist.
Mkdtemp(s) ==
    /\ stagers[s].pc = "mkdtemp"
    /\ \E d \in Stagers :
          /\ disk.stages[d] = None
          /\ disk' = [disk EXCEPT !.stages[d] = Some(EmptyStage)]
          /\ stagers' = [stagers EXCEPT ![s].directory = Some(d),
                                        ![s].pc = "copytree"]
    /\ UNCHANGED <<composerVars, tagCalls, dispatchVars, safeOpenVars,
                   serialVars>>

\* shutil.copytree(project_dir, directory/src, symlinks=True, ...)
CopyProject(s) ==
    /\ stagers[s].pc = "copytree"
    /\ LET d == stagers[s].directory[1]
           tree_ == disk.trees[stagers[s].launch_project.project_dir]
       IN disk' = [disk EXCEPT !.stages[d] =
                      Some([@[1] EXCEPT !.src = Some(CopyTree(tree_))])]
    /\ stagers' = [stagers EXCEPT ![s].pc = "copy"]
    /\ UNCHANGED <<composerVars, tagCalls, dispatchVars, safeOpenVars,
                   serialVars>>

\* shutil.copy(templates/_wandb_bootstrap.py, directory)
CopyBootstrap(s) ==
    /\ stagers[s].pc = "copy"
    /\ LET d == stagers[s].directory[1]
       IN disk' = [disk EXCEPT !.stages[d] =
                      Some([@[1] EXCEPT !.top["_wandb_bootstrap.py"] =
                                File(<<BootstrapSource>>)])]
    /\ stagers' = [stagers EXCEPT ![s].pc = "runtime"]
    /\ UNCHANGED <<composerVars, tagCalls, dispatchVars, safeOpenVars,
                   serialVars>>

\* if launch_project.python_version: write directory/src/runtime.txt
WriteRuntime(s) ==
    /\ stagers[s].pc = "runtime"
    /\ LET d == stagers[s].directory[1]
           version == stagers[s].launch_project.python_version
       IN disk' = IF TruthyStr(version)
                  THEN WriteFile(disk, SrcOf(d), "runtime.txt",
                                 <<"python-", version[1]>>)
                  ELSE disk
    /\ stagers' = [stagers EXCEPT ![s].pc = "dockerfile"]
    /\ UNCHANGED <<composerVars, tagCalls, dispatchVars, safeOpenVars,
                   serialVars>>

\* The recipe is written under _GENERATED_DOCKERFILE_NAME and the directory
\* returned.
WriteDockerfile(s) ==
    /\ stagers[s].pc = "dockerfile"
    /\ LET d == stagers[s].directory[1]
       IN disk' = [disk EXCEPT !.stages[d] =
                      Some([@[1] EXCEPT !.top[_GENERATED_DOCKERFILE_NAME] =
                                File(stagers[s].dockerfile_contents)])]
    /\ stagers' = [stagers EXCEPT ![s].pc = "returned"]
    /\ UNCHANGED <<composerVars, tagCalls, dispatchVars, safeOpenVars,
                   serialVars>>

\* generate_dockerfile's effect on the file system: get_entrypoint_setup
\* writes BASH_ENTRYPOINT into project_dir under DEFAULT_ENTRYPOINT.
WriteEntrypoint(p) ==
    /\ disk' = WriteFile(disk, TreeOf(p), DEFAULT_ENTRYPOINT,
                         <<BASH_ENTRYPOINT>>)
    /\ UNCHANGED stagers
    /\ UNCHANGED <<composerVars, tagCalls, dispatchVars, safeOpenVars,
                   serialVars>>

NextCtx ==
    \/ \E s \in Stagers : Mkdtemp(s)
    \/ \E s \in Stagers : CopyProject(s)
    \/ \E s \in Stagers : CopyBootstrap(s)
    \/ \E s \in Stagers : WriteRuntime(s)
    \/ \E s \in Stagers : WriteDockerfile(s)
    \/ \E p \in Projects : WriteEntrypoint(p)

SpecCtx == InitCtx /\ [][NextCtx]_vars

----------------------------------------------------------------------------
(* Properties of the BuildContextStager, under SpecCtx.                    *)

\* C12: no step of _create_docker_build_ctx or of generate_dockerfile
\* creates or changes anything in a project's source tree but the wrapper
\* script under DEFAULT_ENTRYPOINT: every other name of every source tree
\* holds after the step what it held before, symbolic links in the tree
\* included.
C12_SourceTreeReadOnlyButWrapper ==
    [][\A p \in Projects : \A n \in TreeNames \ {DEFAULT_ENTRYPOINT} :
          disk'.trees[p][n] = disk.trees[p][n]]_vars

\* The invocations are for different projects.
DifferentProjects ==
    \A s, t \in Stagers :
        s # t => stagers[s].launch_project.project_dir
                    # stagers[t].launch_project.project_dir

\* What invocation s leaves under src/ when it runs alone on the source
\* tree it was given: the copy of the tree, and the pin file written into
\* the copy when the descriptor pins a version.
OwnSrc(s) ==
    LET lp == stagers[s].launch_project
        copied == [EmptyStage EXCEPT
                      !.src = Some(CopyTree(disk.given[lp.project_dir]))]
        alone == [trees |-> disk.given, given |-> disk.given,
                  stages |-> [d \in Stagers |-> Some(copied)]]
        pinned == IF TruthyStr(lp.python_version)
                  THEN WriteFile(alone, SrcOf(s), "runtime.txt",
                                 <<"python-", lp.python_version[1]>>)
                  ELSE alone
    IN pinned.stages[s][1].src[1]

\* C13: in every interleaving of invocations for different projects, the
\* directories returned are pairwise distinct, and what each holds when its
\* invocation returns and from then on is decided by the invocation's own
\* descriptor and recipe text alone: under src/ what the invocation leaves
\* there when it runs alone (a wrapper script that generate_dockerfile put
\* into the tree aside), the bootstrap helper, and the recipe under
\* _GENERATED_DOCKERFILE_NAME.
C13_StagingIsolation ==
    DifferentProjects =>
      /\ \A s, t \in Stagers :
            (s # t /\ stagers[s].directory # None
                   /\ stagers[t].directory # None)
            => stagers[s].directory # stagers[t].directory
      /\ \A s \in Stagers :
            stagers[s].pc = "returned" =>
               LET stage == disk.stages[stagers[s].directory[1]][1]
               IN /\ \A n \in TreeNames \ {DEFAULT_ENTRYPOINT} :
                        stage.src[1][n] = OwnSrc(s)[n]
                  /\ stage.top["_wandb_bootstrap.py"] = File(<<BootstrapSource>>)
                  /\ stage.top[_GENERATED_DOCKERFILE_NAME]
                        = File(stagers[s].dockerfile_contents)

----------------------------------------------------------------------------
(* WrapperScript: get_entrypoint_setup writes the wrapper script and       *)
(* returns the ENTRYPOINT section; a container of the image then starts as *)
(* Docker reads that section, with the variables of get_env_vars_dict.     *)

\* get_env_vars_dict(launch_project, api): the two variables the wrapper
\* script reads.  override_args is the list compute_command_args makes.
get_env_vars_dict(lp) ==
    [WANDB_ENTRYPOINT_COMMAND |->
        IF lp.override_entrypoint # None
        THEN Some(join(lp.override_entrypoint[1].command))
        ELSE None,
     WANDB_ARGS |->
        IF lp.override_args # None /\ lp.override_args[1] # <<>>
        THEN Some(JoinWith(lp.override_args[1], <<" ">>))
        ELSE None]

RECURSIVE JsonString(_, _)
\* The string a JSON parser reads from the characters after an opening
\* double quote, when the literal ends with them (acc: read so far); None
\* when a double quote ends it earlier or an escape is not one of JSON's.
JsonString(chars, acc) ==
    IF chars = <<>> THEN Some(acc)
    ELSE IF Head(chars) = "\"" THEN None
    ELSE IF Head(chars) = "\\"
    THEN IF Len(chars) >= 2 /\ chars[2] \in {"\"", "\\", "/"}
         THEN JsonString(Tail(Tail(chars)), Append(acc, chars[2]))
         ELSE None
    ELSE JsonString(Tail(chars), Append(acc, Head(chars)))

\* How Docker reads the ENTRYPOINT instruction of ENTRYPOINT_TEMPLATE: the
\* exec form when the bracketed text is a JSON array of strings, else the
\* shell form, the whole text handed to /bin/sh -c.
DockerEntrypoint(section) ==
    LET k == CHOOSE i \in 1..Len(section) :
                 section[i] = "\nENTRYPOINT [\"sh\", \"./"
        literal == SubSeq(section, k + 3, Len(section) - 1)
        arg == JsonString(literal, <<>>)
    IN IF arg # None
       THEN [form |-> "exec", argv |-> <<"sh", <<"./", section[k + 1]>>, arg[1]>>]
       ELSE [form |-> "shell",
             argv |-> <<"/bin/sh", "-c",
                        <<"[\"sh\", \"./">>
                        \o SubSeq(section, k + 1, Len(section) - 1)
                        \o <<"\"]">>>>]

RECURSIVE Fields(_, _)
\* The fields the shell splits an unquoted expansion into, at spaces (cur:
\* the field being read).
Fields(chars, cur) ==
    IF chars = <<>> THEN (IF cur = <<>> THEN <<>> ELSE <<cur>>)
    ELSE IF Head(chars) = " "
    THEN (IF cur = <<>> THEN <<>> ELSE <<cur>>) \o Fields(Tail(chars), <<>>)
    ELSE Fields(Tail(chars), Append(cur, Head(chars)))

\* sh ./_wandb_default_entrypoint "$1" under the variables env, by the
\* lines of BASH_ENTRYPOINT: what it echoes after "Running command: " and
\* the command line eval gets, the fields of $CMD joined by single spaces.
RunWrapper(positional, env) ==
    LET override == env.WANDB_ENTRYPOINT_COMMAND
        chosen == IF override = None \/ override[1] = <<>>
                  THEN positional ELSE override[1]
        CMD == chosen \o <<" ">>
               \o (IF env.WANDB_ARGS = None THEN <<>> ELSE env.WANDB_ARGS[1])
    IN [echo |-> CMD, eval |-> JoinWith(Fields(CMD, <<>>), <<" ">>)]

\* A container of the image starts: the ENTRYPOINT as Docker reads it, and
\* what the wrapper script evaluates when it is what runs.
RunContainer(section, script, env) ==
    LET entry == DockerEntrypoint(section)
    IN IF entry.form = "exec" /\ script = Some(BASH_ENTRYPOINT)
       THEN [form |-> "exec", argv |-> entry.argv,
             wrapper |-> Some(RunWrapper(entry.argv[3], env))]
       ELSE [form |-> entry.form, argv |-> entry.argv, wrapper |-> None]

\* Entry-point commands: plain words, a quoted word, a word holding a
\* double quote (a JSON value, say).
EntryCommands ==
    { << <<"p", "y">>, <<"m", ".", "p", "y">> >>,
      << <<"a", " ", "'", "b", "'">> >>,
      << <<"p", "y">>, <<"{", "\"", "k", "\"", ":", "1", "}">> >> }

InitEntry ==
    /\ \E dir \in {None, Some("/project")},
          override \in {None, Some([name |-> "o", command |-> <<>>]),
                        Some([name |-> "o",
                              command |-> << <<"s", "h">>, <<"r", "u", "n">> >>])},
          args \in {None, Some(<<>>), Some(<< <<"-", "-", "x">>, <<"1">> >>)} :
          launch_project = [BaseProject EXCEPT !.project_dir = dir,
                                               !.override_entrypoint = override,
                                               !.override_args = args]
    /\ \E command \in EntryCommands :
          request = [BaseRequest EXCEPT
                        !.entry_point = [name |-> "e", command |-> command]]
    /\ \E name \in {"alice", "root"} : host = [BaseHost EXCEPT !.username = name]
    /\ tree = BaseTree
    /\ calls = <<>>
    /\ tagCalls = <<>>
    /\ IdleDispatch
    /\ IdleStaging
    /\ IdleSafeOpen
    /\ IdleSerial

\* A call of get_entrypoint_setup(launch_project, entry_point, workdir).
GetEntrypointSetup ==
    /\ IF launch_project.project_dir = None
       THEN /\ Record("get_entrypoint_setup", Raised("AssertionError", <<>>))
            /\ UNCHANGED tree
       ELSE /\ Record("get_entrypoint_setup",
                      Returned(get_entrypoint_setup(launch_project,
                                                    request.entry_point,
                                                    <<"/home/", host.username>>),
                               <<>>))
            /\ tree' = [tree EXCEPT !.entrypoint = Some(BASH_ENTRYPOINT)]
    /\ UNCHANGED <<launch_project, request, host, tagCalls, dispatchVars, libVars>>

\* A container starts from the image built of the section and the tree.
StartContainer ==
    /\ calls # <<>>
    /\ calls[Len(calls)].fn = "get_entrypoint_setup"
    /\ calls[Len(calls)].out.raised = ""
    /\ Record("container",
              Returned(<<RunContainer(calls[Len(calls)].out.ret,
                                      tree.entrypoint,
                                      get_env_vars_dict(launch_project))>>,
                       <<>>))
    /\ UNCHANGED <<launch_project, request, tree, host, tagCalls, dispatchVars,
                   libVars>>

NextEntry ==
    \/ GetEntrypointSetup
    \/ StartContainer

SpecEntry == InitEntry /\ [][NextEntry]_vars

----------------------------------------------------------------------------
(* Properties of the WrapperScript, under SpecEntry.                       *)

\* The command line the claim has the wrapper script evaluate: the command
\* override when the descriptor sets one, else the shell-joined entry-point
\* command, followed by the extra arguments.
ClaimedCommandLine ==
    LET env == get_env_vars_dict(launch_project)
        first == IF env.WANDB_ENTRYPOINT_COMMAND # None
                 THEN env.WANDB_ENTRYPOINT_COMMAND[1]
                 ELSE join(request.entry_point.command)
        extra == IF env.WANDB_ARGS # None THEN env.WANDB_ARGS[1] ELSE <<>>
    IN JoinWith(Fields(first \o <<" ">> \o extra, <<>>), <<" ">>)

\* C14: every get_entrypoint_setup that returns has left BASH_ENTRYPOINT
\* under DEFAULT_ENTRYPOINT, whatever the descriptor and the entry point;
\* a container of the image starts the script with the shell-joined
\* entry-point command as its first positional argument; and the script
\* evaluates the command override when it is set, else that argument,
\* followed by the extra arguments.
C14_LateBindingWrapper ==
    \A i \in 1..Len(calls) :
       /\ (calls[i].fn = "get_entrypoint_setup" /\ calls[i].out.raised = "")
          => tree.entrypoint = Some(BASH_ENTRYPOINT)
       /\ calls[i].fn = "container"
          => /\ calls[i].out.ret[1].form = "exec"
             /\ calls[i].out.ret[1].argv
                   = <<"sh", <<"./", DEFAULT_ENTRYPOINT>>,
                       join(request.entry_point.command)>>
             /\ calls[i].out.ret[1].wrapper # None
             /\ calls[i].out.ret[1].wrapper[1].eval = ClaimedCommandLine

----------------------------------------------------------------------------
(* safe_open: two processes, each inside one call of safe_open(path, mode) *)
(* for the same path, one step per file-system operation.  parent is the   *)
(* path's parent directory: what the path holds, and each call's temporary *)
(* directory with the file in it.                                          *)

MaxOpeners == 2

Openers == 1..MaxOpeners
Modes == {"r", "w", "x", "a", "r+"}

\* What the path holds before the calls: nothing, or a file.
OldContent == <<"old">>

\* "r" in mode and "+" not in mode
ReadOnly(mode) == mode = "r"
\* "x" in mode
Exclusive(mode) == mode = "x"
\* "r" in mode or "a" in mode
CopiesOriginal(mode) == mode \in {"r", "r+", "a"}

\* The file a call writes to decides where the path's content is safe; the
\* variant writes in place.
OpenedInPlace(p, dir) ==
    [dir EXCEPT !.target = Some(<<>>), !.tmp[p] = Some([file |-> Some(<<>>)])]

\* tmp_path.open(mode) for a mode that creates the file: the file is made
\* in the call's temporary directory.
OpenedInTemp(p, dir) == [dir EXCEPT !.tmp[p] = Some([file |-> Some(<<>>)])]

\* The content of a file opened in mode after data is written to it.
Written(mode, content, data) ==
    IF mode = "r+" /\ content # <<>>
    THEN <<data>> \o Tail(content)
    ELSE Append(content, data)

\* The link that wins whatever the path holds.
LinkOverwrites(dir) == TRUE

\* os.link(tmp_path, path) succeeds: the path holds nothing.
LinkSucceeds(dir) == dir.target = None

\* An exception leaves the call: the with statements unwind first.
Unwind(p, exception) ==
    openers' = [openers EXCEPT ![p].pc = "unwind", ![p].exception = exception]

InitOpen ==
    /\ \E target \in {None, Some(OldContent)} :
          parent = [target |-> target, tmp |-> [p \in Openers |-> None]]
    /\ \E modes \in [Openers -> Modes] :
          openers = [p \in Openers |->
                        [mode |-> modes[p], pc |-> "start",
                         data |-> "new" \o ToString(p),
                         copied |-> None, exception |-> ""]]
    /\ IdleComposer
    /\ tagCalls = <<>>
    /\ IdleDispatch
    /\ IdleStaging
    /\ IdleSerial

\* The call starts: the exclusive mode fails on a path that exists; the
\* read-only mode opens the path itself.
Enter(p) ==
    /\ openers[p].pc = "start"
    /\ IF Exclusive(openers[p].mode) /\ parent.target # None
       THEN openers' = [openers EXCEPT ![p].pc = "raised",
                                       ![p].exception = "FileExistsError"]
       ELSE IF ReadOnly(openers[p].mode)
       THEN IF parent.target = None
            THEN openers' = [openers EXCEPT
                                ![p].pc = "raised",
                                ![p].exception = "FileNotFoundError"]
            ELSE openers' = [openers EXCEPT ![p].pc = "reading"]
       ELSE openers' = [openers EXCEPT ![p].pc = "mktemp"]
    /\ UNCHANGED parent
    /\ UNCHANGED <<composerVars, tagCalls, dispatchVars, stagingVars, serialVars>>

\* The read-only call yields the file and returns, or the caller's block
\* raises.
ReadOriginal(p) ==
    /\ openers[p].pc = "reading"
    /\ \/ openers' = [openers EXCEPT ![p].pc = "returned"]
       \/ openers' = [openers EXCEPT ![p].pc = "raised",
                                     ![p].exception = "BlockError"]
    /\ UNCHANGED parent
    /\ UNCHANGED <<composerVars, tagCalls, dispatchVars, stagingVars, serialVars>>

\* tempfile.TemporaryDirectory(dir=path.parent)
MakeTempDir(p) ==
    /\ openers[p].pc = "mktemp"
    /\ parent' = [parent EXCEPT !.tmp[p] = Some([file |-> None])]
    /\ openers' = [openers EXCEPT ![p].pc = "copy"]
    /\ UNCHANGED <<composerVars, tagCalls, dispatchVars, stagingVars, serialVars>>

\* The original is copied for the modes that read or append, if it exists.
CopyOriginal(p) ==
    /\ openers[p].pc = "copy"
    /\ IF CopiesOriginal(openers[p].mode) /\ parent.target # None
       THEN /\ parent' = [parent EXCEPT !.tmp[p] = Some([file |-> parent.target])]
            /\ openers' = [openers EXCEPT ![p].pc = "open",
                                          ![p].copied = parent.target]
       ELSE /\ openers' = [openers EXCEPT ![p].pc = "open"]
            /\ UNCHANGED parent
    /\ UNCHANGED <<composerVars, tagCalls, dispatchVars, stagingVars, serialVars>>

\* tmp_path.open(mode): "r+" wants the file to exist, "a" keeps what it has,
\* "w" and "x" make it empty.
OpenTemp(p) ==
    /\ openers[p].pc = "open"
    /\ LET mode == openers[p].mode
           file == parent.tmp[p][1].file
       IN IF mode = "r+" /\ file = None
          THEN /\ Unwind(p, "FileNotFoundError")
               /\ UNCHANGED parent
          ELSE IF mode \in {"r+", "a"} /\ file # None
          THEN /\ openers' = [openers EXCEPT ![p].pc = "block"]
               /\ UNCHANGED parent
          ELSE /\ parent' = OpenedInTemp(p, parent)
               /\ openers' = [openers EXCEPT ![p].pc = "block"]
    /\ UNCHANGED <<composerVars, tagCalls, dispatchVars, stagingVars, serialVars>>

\* The caller's block writes its data and ends, or writes and raises, or
\* raises before it wrote.
Block(p) ==
    /\ openers[p].pc = "block"
    /\ LET file == parent.tmp[p][1].file[1]
           wrote == [parent EXCEPT !.tmp[p] =
                        Some([file |-> Some(Written(openers[p].mode, file,
                                                    openers[p].data))])]
       IN \/ /\ parent' = wrote
             /\ openers' = [openers EXCEPT ![p].pc = "flush"]
          \/ /\ parent' = wrote
             /\ Unwind(p, "BlockError")
          \/ /\ UNCHANGED parent
             /\ Unwind(p, "BlockError")
    /\ UNCHANGED <<composerVars, tagCalls, dispatchVars, stagingVars, serialVars>>

\* f.flush(); os.fsync(f.fileno()), and the file is closed.
Flush(p) ==
    /\ openers[p].pc = "flush"
    /\ \/ openers' = [openers EXCEPT ![p].pc = "commit"]
       \/ Unwind(p, "OSError")
    /\ UNCHANGED parent
    /\ UNCHANGED <<composerVars, tagCalls, dispatchVars, stagingVars, serialVars>>

\* The new content reaches the path: os.link in the exclusive mode, which
\* fails when the path exists, tmp_path.replace(path) in the others.
Commit(p) ==
    /\ openers[p].pc = "commit"
    /\ LET file == parent.tmp[p][1].file
       IN IF Exclusive(openers[p].mode)
          THEN IF LinkSucceeds(parent)
               THEN /\ parent' = [parent EXCEPT !.target = file]
                    /\ openers' = [openers EXCEPT ![p].pc = "cleanup"]
               ELSE /\ Unwind(p, "FileExistsError")
                    /\ UNCHANGED parent
          ELSE /\ parent' = [parent EXCEPT
                                !.target = file,
                                !.tmp[p] = Some([file |-> None])]
               /\ openers' = [openers EXCEPT ![p].pc = "cleanup"]
    /\ UNCHANGED <<composerVars, tagCalls, dispatchVars, stagingVars, serialVars>>

\* os.unlink(tmp_path) after the link, and the temporary directory is
\* removed as its with statement ends: the call returns, or the exception
\* leaves it.
Cleanup(p) ==
    /\ openers[p].pc \in {"cleanup", "unwind"}
    /\ parent' = [parent EXCEPT !.tmp[p] = None]
    /\ openers' = [openers EXCEPT
                      ![p].pc = IF openers[p].pc = "cleanup"
                                THEN "returned" ELSE "raised"]
    /\ UNCHANGED <<composerVars, tagCalls, dispatchVars, stagingVars, serialVars>>

NextOpen ==
    \/ \E p \in Openers : Enter(p)
    \/ \E p \in Openers : ReadOriginal(p)
    \/ \E p \in Openers : MakeTempDir(p)
    \/ \E p \in Openers : CopyOriginal(p)
    \/ \E p \in Openers : OpenTemp(p)
    \/ \E p \in Openers : Block(p)
    \/ \E p \in Openers : Flush(p)
    \/ \E p \in Openers : Commit(p)
    \/ \E p \in Openers : Cleanup(p)

SpecOpen == InitOpen /\ [][NextOpen]_vars

----------------------------------------------------------------------------
(* Properties of safe_open, under SpecOpen.                                *)

\* What call p of a writing mode is to leave in the path: its data, after
\* what it copied of the original in the modes that keep it.
NewContent(p) ==
    LET o == openers[p]
        kept == IF o.copied = None THEN <<>> ELSE o.copied[1]
    IN Some(Written(o.mode, IF CopiesOriginal(o.mode) THEN kept ELSE <<>>,
                    o.data))

\* Call p takes the step that puts its content into the path.
Commits(p) == openers[p].pc = "commit" /\ openers'[p].pc = "cleanup"

\* Call p ends in this step, returning or raising.
Ends(p) ==
    /\ openers[p].pc \notin {"returned", "raised"}
    /\ openers'[p].pc \in {"returned", "raised"}

\* C15: a call of safe_open in a writing mode changes what the path holds
\* in one step only, the replace (or link) after its block and its flush
\* succeeded, and that step puts the whole new content there; every other
\* step of the call, the failing ones included, leaves the path as it was;
\* and when the call ends, raising or returning, its temporary directory
\* and the file in it are gone.
C15_AtomicWrite ==
    [][/\ parent'.target # parent.target
          => \E p \in Openers :
                Commits(p) /\ parent'.target = NewContent(p)
       /\ \A p \in Openers :
             /\ Commits(p) => parent'.target = NewContent(p)
             /\ Ends(p) => parent'.tmp[p] = None
             /\ (openers'[p] # openers[p]
                    /\ openers'[p].pc \in {"unwind", "raised"})
                => parent'.target = parent.target]_vars

\* A call in mode "w" on a path that holds a file has raised the OSError of
\* its flush, after its block wrote: the path holds the old content and the
\* temporary directory is gone.
C15_Witness ==
    /\ openers[1].mode = "w"
    /\ openers[1].pc = "raised"
    /\ openers[1].exception = "OSError"
    /\ parent.target = Some(OldContent)
    /\ parent.tmp[1] = None
    /\ openers[2].pc = "start"

\* Both calls are in the exclusive mode.
BothExclusive == \A p \in Openers : Exclusive(openers[p].mode)

\* C16: a call of safe_open in mode "x" raises FileExistsError when the
\* path exists as the call starts, and when it exists as the call comes to
\* put its content there, and then leaves the path as it is; it puts its
\* content only into a path that holds nothing; and of two concurrent calls
\* in mode "x" at most one returns, the path then holding its content.
C16_ExclusiveNeverOverwrites ==
    [][\A p \in Openers :
          Exclusive(openers[p].mode) =>
             /\ (openers[p].pc \in {"start", "commit"}
                    /\ openers'[p].pc # openers[p].pc
                    /\ parent.target # None)
                => /\ openers'[p].exception = "FileExistsError"
                   /\ openers'[p].pc \in {"raised", "unwind"}
                   /\ parent'.target = parent.target
             /\ Commits(p) => parent.target = None
             /\ BothExclusive =>
                   /\ \A q \in Openers :
                         (openers'[p].pc \in {"cleanup", "returned"}
                             /\ openers'[q].pc \in {"cleanup", "returned"})
                         => p = q
                   /\ openers'[p].pc \in {"cleanup", "returned"}
                      => parent'.target = Some(<<openers[p].data>>)]_vars

\* Two calls in mode "x" raced for a path that held nothing: the first one
\* linked its content, the second one found the path taken at its link and
\* is raising FileExistsError.
C16_Witness ==
    /\ BothExclusive
    /\ openers[1].pc \in {"cleanup", "returned"}
    /\ openers[2].pc = "unwind"
    /\ openers[2].exception = "FileExistsError"
    /\ parent.target = Some(<<openers[1].data>>)

----------------------------------------------------------------------------
(* WriteSerializingFile: threads calling write and close of one wrapper,   *)
(* one step per statement.  wsf is the wrapper: its lock (the thread that  *)
(* holds it, None when free) and the file it wraps.                        *)

MaxThreads == 3
MaxOps == 2

Threads == 1..MaxThreads

\* The lock left as it is when the call raised.
KeepLockOnRaise(t, lock) == IF threads[t].exception # "" THEN lock ELSE None

\* finally: self.lock.release()
ReleaseLock(t, lock) == None

\* __init__: a new lock, the file open and nothing written.
InitSerial ==
    /\ wsf = [lock |-> None,
              f |-> [closed |-> FALSE, written |-> 0, flushed |-> 0]]
    /\ threads = [t \in Threads |->
                     [pc |-> "idle", op |-> "", exception |-> "", calls |-> 0,
                      outcome |-> ""]]
    /\ IdleComposer
    /\ tagCalls = <<>>
    /\ IdleDispatch
    /\ IdleStaging
    /\ IdleSafeOpen

\* A thread calls write or close.
Call(t) ==
    /\ threads[t].pc = "idle"
    /\ threads[t].calls < MaxOps
    /\ \E op \in {"write", "close"} :
          threads' = [threads EXCEPT ![t].pc = "acquire", ![t].op = op,
                                     ![t].exception = "", ![t].outcome = "",
                                     ![t].calls = @ + 1]
    /\ UNCHANGED wsf
    /\ UNCHANGED <<composerVars, tagCalls, dispatchVars, stagingVars, safeOpenVars>>

\* self.lock.acquire(): it returns when the lock is free, and takes it.
Acquire(t) ==
    /\ threads[t].pc = "acquire"
    /\ wsf.lock = None
    /\ wsf' = [wsf EXCEPT !.lock = Some(t)]
    /\ threads' = [threads EXCEPT ![t].pc = threads[t].op]
    /\ UNCHANGED <<composerVars, tagCalls, dispatchVars, stagingVars, safeOpenVars>>

\* self.f.write(...): ValueError on a closed file; else it writes or fails.
Write(t) ==
    /\ threads[t].pc = "write"
    /\ IF wsf.f.closed
       THEN /\ threads' = [threads EXCEPT ![t].pc = "release",
                                          ![t].exception = "ValueError"]
            /\ UNCHANGED wsf
       ELSE \/ /\ wsf' = [wsf EXCEPT !.f.written = @ + 1]
               /\ threads' = [threads EXCEPT ![t].pc = "flush"]
            \/ /\ threads' = [threads EXCEPT ![t].pc = "release",
                                             ![t].exception = "OSError"]
               /\ UNCHANGED wsf
    /\ UNCHANGED <<composerVars, tagCalls, dispatchVars, stagingVars, safeOpenVars>>

\* self.f.flush(): what was written reaches the file, or it fails.
FlushFile(t) ==
    /\ threads[t].pc = "flush"
    /\ \/ /\ wsf' = [wsf EXCEPT !.f.flushed = wsf.f.written]
          /\ threads' = [threads EXCEPT ![t].pc = "release"]
       \/ /\ threads' = [threads EXCEPT ![t].pc = "release",
                                        ![t].exception = "OSError"]
          /\ UNCHANGED wsf
    /\ UNCHANGED <<composerVars, tagCalls, dispatchVars, stagingVars, safeOpenVars>>

\* self.f.close(): the file is closed; its last flush may fail.
Close(t) ==
    /\ threads[t].pc = "close"
    /\ \/ /\ wsf' = [wsf EXCEPT !.f.closed = TRUE,
                                !.f.flushed = wsf.f.written]
          /\ threads' = [threads EXCEPT ![t].pc = "release"]
       \/ /\ ~wsf.f.closed
          /\ wsf' = [wsf EXCEPT !.f.closed = TRUE]
          /\ threads' = [threads EXCEPT ![t].pc = "release",
                                        ![t].exception = "OSError"]
    /\ UNCHANGED <<composerVars, tagCalls, dispatchVars, stagingVars, safeOpenVars>>

\* The finally clause releases the lock; the call returns, or the exception
\* of the underlying call leaves it.
Release(t) ==
    /\ threads[t].pc = "release"
    /\ wsf' = [wsf EXCEPT !.lock = ReleaseLock(t, wsf.lock)]
    /\ threads' = [threads EXCEPT
                      ![t].pc = "idle",
                      ![t].outcome = IF threads[t].exception = ""
                                     THEN "returned" ELSE "raised"]
    /\ UNCHANGED <<composerVars, tagCalls, dispatchVars, stagingVars, safeOpenVars>>

NextSerial ==
    \/ \E t \in Threads : Call(t)
    \/ \E t \in Threads : Acquire(t)
    \/ \E t \in Threads : Write(t)
    \/ \E t \in Threads : FlushFile(t)
    \/ \E t \in Threads : Close(t)
    \/ \E t \in Threads : Release(t)

SpecSerial == InitSerial /\ [][NextSerial]_vars

----------------------------------------------------------------------------
(* Properties of WriteSerializingFile, under SpecSerial.                   *)

\* The threads inside a call of the wrapped file, and those between
\* acquire and release.
InsideFile == {t \in Threads : threads[t].pc \in {"write", "flush", "close"}}
InsideLock == {t \in Threads : threads[t].pc \in {"write", "flush", "close",
                                                  "release"}}

\* C17: at most one thread is inside the wrapped file's write, flush or
\* close at a time, so the file is never closed while a write is in
\* progress; and the lock is held exactly by the one thread between its
\* acquire and its release, so after every write or close, one that raised
\* included, the lock is free again and no later caller waits for a thread
\* that has left.
C17_WritesSerialized ==
    /\ Cardinality(InsideFile) <= 1
    /\ Cardinality(InsideLock) <= 1
    /\ \A t \in Threads : wsf.lock = Some(t) <=> t \in InsideLock
    /\ InsideLock = {} => wsf.lock = None

\* A write has raised (the file was closed by another thread), the lock is
\* free, and a later caller is inside the file while a third one waits.
C17_Witness ==
    /\ \E t \in Threads :
          /\ threads[t].outcome = "raised"
          /\ threads[t].op = "write"
          /\ threads[t].pc = "idle"
    /\ wsf.f.closed
    /\ \E t \in Threads : threads[t].pc = "write" /\ wsf.lock = Some(t)
    /\ \E t \in Threads : threads[t].pc = "acquire"

----------------------------------------------------------------------------
(* Further properties of get_requirements_section, under SpecReq.          *)

\* The names of the lines of requirements.txt that parse.
ParseableNames ==
    LET lines == tree.requirements[1]
    IN {lines[k].name : k \in {j \in 1..Len(lines) : lines[j].kind = "req"}}

\* C18 (SpecReq): for every plain manifest, lines that do not parse
\* included, the call that reads it (pip kind, both manifests in the tree)
\* does not raise because of the manifest (it raises only for a builder
\* kind that leaves buildx_installed unbound, whatever the manifest), and
\* when it returns the names of its WANDB_ONLY_INCLUDE filter are exactly
\* the lowercased names of all the lines that parse, those after a line
\* that does not parse included.
C18_EveryParseableLineKept ==
    \A i \in CallsOf("get_requirements_section") :
        (launch_project.deps_type = Some("pip") /\ PlainInTree /\ FrozenInTree)
        => /\ calls[i].out.raised # ""
                 => request.builder_type \notin {"docker", "kaniko"}
           /\ calls[i].out.raised = ""
                 => LET filter == FilterNames(calls[i].out.ret)
                    IN /\ \A q \in filter : \E name \in ParseableNames :
                             IsLowerCaseOf(q, name)
                       /\ \A name \in ParseableNames : \E q \in filter :
                             IsLowerCaseOf(q, name)

----------------------------------------------------------------------------
(* Further properties of generate_dockerfile, under Spec.                  *)

\* The piece of a recipe that follows the piece marker.
PieceAfter(recipe, marker) == recipe[IndexOf(recipe, marker) + 1]

\* The uids a recipe hands the working directory to: those of its chown
\* directives and of its COPY --chown directive.
OwnershipUids(recipe) ==
    {PieceAfter(recipe, "\nRUN chown -R "),
     PieceAfter(recipe, "/.cache && chown -R "),
     PieceAfter(recipe, "/.cache\n\n# copy code/etc\nCOPY --chown=")}

RunsAsRoot(recipe) == IndexOf(recipe, "USER root") # 0

\* C19 (Spec): a recipe that generate_dockerfile returns holds USER root
\* exactly when the uid of its chown and COPY --chown directives is 0 by
\* root-forcing; otherwise the uid of its useradd directive is the uid of
\* those directives and its USER directive names the user that useradd
\* creates.
C19_UserSectionMatchesOwnership ==
    \A i \in CallsOf("generate_dockerfile") :
        calls[i].out.raised = ""
        => LET recipe == calls[i].out.ret
               created == IndexOf(recipe, "\nRUN useradd     --create-home     --no-log-init     --shell /bin/bash     --gid 0     --uid ")
           IN /\ RunsAsRoot(recipe)
                    <=> (RootForcing /\ OwnershipUids(recipe) = {"0"})
              /\ ~RunsAsRoot(recipe)
                    => /\ created # 0
                       /\ OwnershipUids(recipe) = {recipe[created + 1]}
                       /\ PieceAfter(recipe, "\nUSER ") = recipe[created + 3]

====
